---- MODULE Spec2Model ----
(***************************************************************************)
(* Model of the rancher-turtles import reconciler                          *)
(* (internal/controllers/import_controller.go) and of the name converter   *)
(* (util/naming/name_converter.go).                                        *)
(*                                                                         *)
(* One Reconcile invocation per CAPI cluster key is a small process: every *)
(* API call it makes is one step, so that the other actors of the          *)
(* management cluster (users, Rancher's own controllers, the garbage       *)
(* collector) interleave between the calls exactly where they can in the   *)
(* running controller.                                                     *)
(***************************************************************************)
EXTENDS Naturals, Sequences, FiniteSets, TLC

\* ------------------------------------------------------------------ bounds

\* An external writer updates a CAPI cluster at most MaxRV times.
MaxRV == 1

\* A manifest stream under examination has at most MaxDocs documents of at
\* most MaxItems objects each.
MaxDocs == 2
MaxItems == 2

\* A name under examination is a stem of at most MaxNameLen characters
\* followed by at most MaxSuffixes copies of the suffix.
MaxNameLen == 4
MaxSuffixes == 2

\* ------------------------------------------------------- program constants

\* defaultRequeueDuration = 1 * time.Minute, in seconds.
defaultRequeueDuration == 60

importLabelName == "cluster-api.cattle.io/rancher-auto-import"
ownedLabelName == "cluster-api.cattle.io/owned"
ClusterImportedAnnotation == "imported"

\* ------------------------------------------------------------ name converter

\* Names are sequences of characters.
rancherCAPISuffix == <<"-", "c", "a", "p", "i">>

HasSuffix(s, suf) ==
    /\ Len(s) >= Len(suf)
    /\ SubSeq(s, Len(s) - Len(suf) + 1, Len(s)) = suf

\* strings.TrimSuffix
TrimSuffix(s, suf) ==
    IF HasSuffix(s, suf) THEN SubSeq(s, 1, Len(s) - Len(suf)) ELSE s

\* Mutant: strings.TrimRight, which takes the suffix as a set of characters.
RECURSIVE TrimRight(_, _)
TrimRight(s, cutset) ==
    IF Len(s) > 0 /\ s[Len(s)] \in cutset
    THEN TrimRight(SubSeq(s, 1, Len(s) - 1), cutset)
    ELSE s
ToCapiName_TrimRight(n) ==
    TrimRight(n, {rancherCAPISuffix[i] : i \in 1..Len(rancherCAPISuffix)})

ToCapiName(n) == TrimSuffix(n, rancherCAPISuffix)

ToRancherName(n) == ToCapiName(n) \o rancherCAPISuffix

\* ------------------------------------------------------------------ objects

\* The CAPI clusters of the (single) namespace the model looks at.
NameA == <<"a">>
NameB == <<"b">>
NameACapi == <<"a", "-", "c", "a", "p", "i">>
AllNames == {NameA, NameB, NameACapi}

RancherNames == {ToRancherName(k) : k \in AllNames}

\* The clusters a client can create objects in: the workload cluster of each
\* CAPI cluster, and the management cluster r.Client talks to.
ManagementCluster == <<"m", "g", "m", "t">>
Clusters == AllNames \cup {ManagementCluster}

\* The cluster name Rancher's controllers publish in a Rancher cluster's
\* status; the registration token carries the same name.
StatusName(rn) == <<"c", "-", "m", "-">> \o rn
TokenNames == {StatusName(rn) : rn \in RancherNames}

NoCapi == [exists |-> FALSE, ready |-> FALSE, conditionTrue |-> FALSE, label |-> FALSE,
           imported |-> FALSE, rv |-> 0]

\* UID of a CAPI cluster: one per name, the model never re-creates a cluster.
UID(k) == <<"uid">> \o k

NoOwner == <<>>

\* provisioningv1.Cluster
NoRancher == [exists |-> FALSE, deleting |-> FALSE, clusterName |-> <<>>,
              agentDeployed |-> FALSE, labels |-> {}, owners |-> NoOwner]

\* managementv3.ClusterRegistrationToken
NoToken == [exists |-> FALSE, specClusterName |-> <<>>, manifestURL |-> FALSE]

\* The import manifest: a sequence of YAML documents, each a list of objects
\* or a document that does not parse.
Objects == {"ns", "sa", "deploy"}
ImportManifest == << [valid |-> TRUE, items |-> <<"ns", "sa">>],
                     [valid |-> TRUE, items |-> <<"deploy">>] >>
EmptyBody == <<>>
Bodies == {EmptyBody, ImportManifest}

\* ctrl.Result
Result(requeue, after) == [Requeue |-> requeue, RequeueAfter |-> after]
EmptyResult == Result(FALSE, 0)

NoRet == [set |-> FALSE, res |-> EmptyResult, err |-> <<>>]

\* The locals of one Reconcile invocation.
NoLoc == [capiCluster |-> NoCapi, patchBase |-> NoCapi,
          rancherCluster |-> NoRancher, result |-> EmptyResult, err |-> "nil",
          manifest |-> EmptyBody, sent |-> <<>>, calls |-> <<>>]

\* The part of a fetched CAPI cluster the invocation goes on to use once the
\* readiness guard has read the status: labels, annotations, resource version.
Fetched(c) == [c EXCEPT !.ready = FALSE, !.conditionTrue = FALSE]

VARIABLES
    keys,       \* the CAPI cluster keys of the scenario
    capi,       \* management cluster: CAPI clusters by name
    nsLabel,    \* management cluster: the namespace carries the import label
    rancher,    \* Rancher clusters by name
    token,      \* cluster registration tokens by name
    workload,   \* per cluster: its objects of the kinds the import manifest holds
    queue,      \* work queue: the key waits for a reconcile
    pc,         \* per key: the next call of the invocation in flight
    loc,        \* per key: the invocation's locals
    ops,        \* per key: the calls the invocation has made, with outcomes
    ret,        \* per key: what Reconcile returned
    hist,       \* per key: what happened since the last external change
    nameCall,   \* the name conversion under examination: input and results
    applyCall,  \* the manifest application under examination: inputs and results
    pairRun,    \* two invocations under examination: schedule, start state, outcomes
    httpCall,   \* the manifest download under examination: response and results
    eventCall,  \* the event mapping under examination: objects, event, requests
    annotateCall \* the annotation step under examination: annotations before and after

vars == <<keys, capi, nsLabel, rancher, token, workload, queue, pc, loc, ops, ret, hist,
          nameCall, applyCall, pairRun, httpCall, eventCall, annotateCall>>

mgmt == <<capi, nsLabel, rancher, token>>

Op(name, out) == [op |-> name, out |-> out]

\* History of a key since the management cluster was last changed by another
\* actor: "changed" until an invocation starts, "running" while the first
\* invocation since is in flight, "settled" once an invocation that started
\* after the change has returned without error; and the number of Rancher
\* clusters and tokens the reconciler has created since.
NoHist == [phase |-> "changed", rancherCreated |-> 0, tokenCreated |-> 0]

\* Another actor changed the management cluster.
ExternalChange == hist' = [k \in DOMAIN hist |-> NoHist]

\* No conversion, no application under examination.
NoNameCall == [step |-> "none"]
NoApplyCall == [step |-> "none"]

\* No pair of invocations under examination.
NoPairRun == [phase |-> "none"]

\* No download under examination.
NoHttpCall == [step |-> "none"]

\* No event mapping under examination.
NoEventCall == [step |-> "none"]

\* No annotation step under examination.
NoAnnotateCall == [step |-> "none"]

\* ---------------------------------------------------------- manifest applier

\* What an apply has done so far: the workload cluster's objects, the error
\* ("nil" when none) and the Create calls issued, in order.
ApplyState(objs, err, calls) == [objs |-> objs, err |-> err, calls |-> calls]

\* Mutant: an object the cluster already holds is skipped without a Create.
createObject_SkipsExisting(st, o, fail) ==
    IF o \in fail
    THEN ApplyState(st.objs, "creating object in remote cluster", Append(st.calls, o))
    ELSE IF o \in st.objs
    THEN st
    ELSE ApplyState(st.objs \cup {o}, "nil", Append(st.calls, o))

\* Mutant: AlreadyExists is returned like any other error.
createObject_AlreadyExistsFails(st, o, fail) ==
    IF o \in fail \/ o \in st.objs
    THEN ApplyState(st.objs, "creating object in remote cluster", Append(st.calls, o))
    ELSE ApplyState(st.objs \cup {o}, "nil", Append(st.calls, o))

\* createObject: one Create against the remote client. `fail` are the objects
\* whose creation the API server refuses with an error other than AlreadyExists.
createObject(st, o, fail) ==
    IF o \in fail
    THEN ApplyState(st.objs, "creating object in remote cluster", Append(st.calls, o))
    ELSE IF o \in st.objs
    THEN ApplyState(st.objs, "nil", Append(st.calls, o))
    ELSE ApplyState(st.objs \cup {o}, "nil", Append(st.calls, o))

\* Mutant: the loop notes the error and goes on with the document's other
\* objects.
RECURSIVE createItems_KeepsGoing(_, _, _, _)
createItems_KeepsGoing(st, items, i, fail) ==
    IF i > Len(items) THEN st
    ELSE LET nxt == createObject(st, items[i], fail)
             rest == createItems_KeepsGoing([nxt EXCEPT !.err = "nil"], items, i + 1, fail)
         IN  IF nxt.err # "nil" THEN [rest EXCEPT !.err = nxt.err] ELSE rest

\* Mutant: an object that already exists is taken to mean the document was
\* applied before, and the rest of the document is skipped.
RECURSIVE createItems_StopsAtExisting(_, _, _, _)
createItems_StopsAtExisting(st, items, i, fail) ==
    IF i > Len(items) THEN st
    ELSE LET nxt == createObject(st, items[i], fail)
         IN  IF nxt.err # "nil" \/ items[i] \in st.objs THEN nxt
             ELSE createItems_StopsAtExisting(nxt, items, i + 1, fail)

\* createRawManifest's loop over the items of a document.
RECURSIVE createItems(_, _, _, _)
createItems(st, items, i, fail) ==
    IF i > Len(items) THEN st
    ELSE LET nxt == createObject(st, items[i], fail)
         IN  IF nxt.err # "nil" THEN nxt
             ELSE createItems(nxt, items, i + 1, fail)

\* Mutant: a document that does not parse is skipped.
createRawManifest_SkipsInvalid(st, doc, fail) ==
    IF ~doc.valid THEN st ELSE createItems(st, doc.items, 1, fail)

\* createRawManifest: utilyaml.ToUnstructured, then createObject per item.
createRawManifest(st, doc, fail) ==
    IF ~doc.valid
    THEN ApplyState(st.objs, "error unmarshalling bytes or empty object passed", st.calls)
    ELSE createItems(st, doc.items, 1, fail)

RECURSIVE createDocs(_, _, _, _)
createDocs(st, body, i, fail) ==
    IF i > Len(body) THEN st
    ELSE LET nxt == createRawManifest(st, body[i], fail)
         IN  IF nxt.err # "nil" THEN nxt
             ELSE createDocs(nxt, body, i + 1, fail)

\* Mutant: only the first document of the stream is read.
createImportManifest_FirstDocumentOnly(objs, body, fail) ==
    createDocs(ApplyState(objs, "nil", <<>>),
               SubSeq(body, 1, IF Len(body) > 0 THEN 1 ELSE 0), 1, fail)

\* createImportManifest: read one raw document at a time until EOF.
createImportManifest(objs, body, fail) ==
    createDocs(ApplyState(objs, "nil", <<>>), body, 1, fail)

\* ------------------------------------------- eligibility and the predicates

\* util.ShouldImport / util.ShouldAutoImport: the cluster or its namespace
\* carries the import label with a truthy value.
ShouldAutoImport(c, ns) == c.label \/ ns

\* turtlespredicates.ClusterWithoutImportedAnnotation
ClusterWithoutImportedAnnotation(c) == ~c.imported

\* turtlespredicates.ClusterWithReadyControlPlane
ClusterWithReadyControlPlane(c) == c.ready \/ c.conditionTrue

\* turtlespredicates.ClusterOrNamespaceWithImportLabel
ClusterOrNamespaceWithImportLabel(c, ns) == c.label \/ ns

\* capiPredicates of SetupWithManager: predicates.All(...). The watch filter
\* value is empty, ResourceHasFilterLabel then admits every object.
capiPredicates(c, ns) ==
    /\ ClusterWithoutImportedAnnotation(c)
    /\ ClusterWithReadyControlPlane(c)
    /\ ClusterOrNamespaceWithImportLabel(c, ns)

\* ------------------------------------------------------------ the reconciler

Goto(k, p) == pc' = [pc EXCEPT ![k] = p]

Log(k, name, out) == ops' = [ops EXCEPT ![k] = Append(@, Op(name, out))]

\* The transition function (reconcile) returns (result, err): the patch of
\* the CAPI cluster is next.
Returns(k, l, result, err) ==
    /\ loc' = [loc EXCEPT ![k] = [l EXCEPT !.result = result, !.err = err]]
    /\ Goto(k, "patch")

\* The work queue hands the key to a worker: one invocation per key at a time.
Start(k) ==
    /\ k \in keys
    /\ queue[k]
    /\ pc[k] = "idle"
    /\ queue' = [queue EXCEPT ![k] = FALSE]
    /\ Goto(k, "getCapi")
    /\ hist' = [hist EXCEPT ![k].phase = IF @ = "changed" THEN "running" ELSE @]
    /\ UNCHANGED <<nameCall, applyCall, pairRun, httpCall, eventCall, annotateCall, keys, capi, nsLabel, rancher, token, workload, loc, ops, ret>>

\* Mutants of the readiness guard: the guard is gone; the condition is tested
\* the wrong way round.
ControlPlaneNotReady_Never(c) == FALSE
ControlPlaneNotReady_WrongCondition(c) == ~c.ready /\ c.conditionTrue

\* Mutant: the guard looks at the status flag only.
ControlPlaneNotReady_FlagOnly(c) == ~c.ready

\* Reconcile's guard: neither the status flag nor the condition says ready.
ControlPlaneNotReady(c) == ~c.ready /\ ~c.conditionTrue

\* Mutant: a failed fetch returns without asking for a retry.
GetFailed_NoRequeue(notFound) ==
    [set |-> TRUE, res |-> EmptyResult,
     err |-> IF notFound THEN <<>> ELSE <<"get capi cluster">>]

\* What Reconcile returns when the Get of the CAPI cluster fails: Requeue, and
\* the error unless it is NotFound.
GetFailed(notFound) ==
    [set |-> TRUE, res |-> Result(TRUE, 0),
     err |-> IF notFound THEN <<>> ELSE <<"get capi cluster">>]

\* Mutant: reconcile goes to reconcileNormal without its own Get.
reconcileEntry_SkipsGet == "getRancher2"

\* Where Reconcile goes once the readiness guard has passed: r.reconcile,
\* whose first statement after building the struct is the Get of the Rancher
\* cluster.
reconcileEntry == "getRancher"

\* Reconcile, up to the readiness guard.
GetCapi(k) ==
    /\ pc[k] = "getCapi"
    /\ \/ /\ ~capi[k].exists
          /\ Log(k, "GetCapi", "notfound")
          /\ ret' = [ret EXCEPT ![k] = GetFailed(TRUE)]
          /\ Goto(k, "done")
          /\ UNCHANGED loc
       \/ /\ Log(k, "GetCapi", "error")
          /\ ret' = [ret EXCEPT ![k] = GetFailed(FALSE)]
          /\ Goto(k, "done")
          /\ UNCHANGED loc
       \/ /\ capi[k].exists
          /\ Log(k, "GetCapi", IF capi[k].ready \/ capi[k].conditionTrue
                                THEN "ready" ELSE "notready")
          /\ loc' = [loc EXCEPT ![k].capiCluster = Fetched(capi[k]),
                                ![k].patchBase = Fetched(capi[k])]
          /\ IF ControlPlaneNotReady(capi[k])
             THEN /\ ret' = [ret EXCEPT ![k] = [set |-> TRUE,
                                 res |-> Result(FALSE, defaultRequeueDuration),
                                 err |-> <<>>]]
                  /\ Goto(k, "done")
             ELSE /\ Goto(k, reconcileEntry)
                  /\ UNCHANGED ret
    /\ UNCHANGED <<nameCall, applyCall, pairRun, httpCall, eventCall, annotateCall, keys, capi, nsLabel, rancher, token, workload, queue, hist>>

\* The Rancher cluster struct reconcile() builds before the Get: name and
\* namespace only.
EmptyRancher == NoRancher

\* What a Get of the Rancher cluster leaves in the local object.
ReadRancher(rn) == IF rancher[rn].exists THEN rancher[rn] ELSE EmptyRancher

RancherOutcome(rc) ==
    IF ~rc.exists THEN "notfound"
    ELSE IF rc.deleting THEN "deleting" ELSE "live"

\* Mutant: only the deletion of a Rancher cluster the reconciler created
\* counts.
DeletionTimestampSet_OwnedOnly(rc) == rc.deleting /\ ownedLabelName \in rc.labels

\* Mutant: deletion only wins while the status is still empty.
DeletionTimestampSet_UnlessNamed(rc) == rc.deleting /\ rc.clusterName = <<>>

\* !rancherCluster.ObjectMeta.DeletionTimestamp.IsZero()
DeletionTimestampSet(rc) == rc.deleting

\* Mutant: reconcileDelete also drops the import label.
reconcileDelete_DropsLabel(c) == [c EXCEPT !.imported = TRUE, !.label = FALSE]

\* Mutant: reconcileDelete forgets SetAnnotations.
reconcileDelete_NoAnnotation(c) == c

\* reconcileDelete: annotate the local CAPI cluster as imported.
reconcileDelete(c) == [c EXCEPT !.imported = TRUE]

\* reconcile: fetch the Rancher cluster, deletion first.
GetRancher(k) ==
    /\ pc[k] = "getRancher"
    /\ \/ /\ Log(k, "GetRancher", "error")
          /\ Returns(k, loc[k], Result(TRUE, 0), "get rancher cluster")
       \/ LET rc == ReadRancher(ToRancherName(k))
              l == loc[k]
          IN  IF DeletionTimestampSet(rc)
              THEN /\ ops' = [ops EXCEPT ![k] = @ \o <<Op("GetRancher", RancherOutcome(rc)),
                                                        Op("reconcileDelete", "ok")>>]
                   /\ Returns(k, [l EXCEPT !.capiCluster = reconcileDelete(@)],
                              EmptyResult, "nil")
              ELSE /\ Log(k, "GetRancher", RancherOutcome(rc))
                   /\ loc' = [loc EXCEPT ![k] = l]
                   /\ Goto(k, "getRancher2")
    /\ UNCHANGED <<nameCall, applyCall, pairRun, httpCall, eventCall, annotateCall, keys, capi, nsLabel, rancher, token, workload, queue, ret, hist>>

\* What the fetched Rancher cluster's status holds.
StatusOutcome(rc) ==
    IF rc.clusterName = <<>>
    THEN (IF rc.agentDeployed THEN "empty, deployed" ELSE "empty")
    ELSE (IF rc.agentDeployed THEN "deployed" ELSE "notdeployed")

\* Mutant: the agent-deployed flag is not looked at.
reconcileNormalBranch_IgnoresAgentDeployed(rc) ==
    IF rc.clusterName = <<>> THEN "wait" ELSE "import"

\* reconcileNormal's branch on the status of the Rancher cluster it fetched:
\* wait for the cluster name, nothing to do, or go on to the import.
reconcileNormalBranch(rc) ==
    IF rc.clusterName = <<>> THEN "wait"
    ELSE IF rc.agentDeployed THEN "deployed"
    ELSE "import"

\* Mutant: no requeue while the cluster name is not set.
WaitForClusterName_NoRequeue == EmptyResult

\* reconcileNormal's result while Status.ClusterName is empty.
WaitForClusterName == Result(TRUE, 0)

\* Mutant: no requeue while the manifest is not available.
WaitForManifest_NoRequeue == EmptyResult

\* reconcileNormal's result while the manifest is empty.
WaitForManifest == Result(TRUE, 0)

\* reconcileNormal, from its own Get of the Rancher cluster to the branch on
\* the status fields.
GetRancher2(k) ==
    /\ pc[k] = "getRancher2"
    /\ \/ /\ Log(k, "GetRancher2", "error")
          /\ Returns(k, loc[k], EmptyResult, "get rancher cluster")
       \/ /\ ~rancher[ToRancherName(k)].exists
          /\ Log(k, "GetRancher2", "notfound")
          /\ Goto(k, "shouldImport")
          /\ UNCHANGED loc
       \/ /\ rancher[ToRancherName(k)].exists
          /\ LET rc == rancher[ToRancherName(k)]
                 l == [loc[k] EXCEPT !.rancherCluster = rc]
             IN  /\ ops' = [ops EXCEPT ![k] = @ \o <<Op("GetRancher2", RancherOutcome(rc)),
                                                      Op("Status", StatusOutcome(rc))>>]
                 /\ IF reconcileNormalBranch(rc) = "wait"
                    THEN Returns(k, loc[k], WaitForClusterName, "nil")
                    ELSE IF reconcileNormalBranch(rc) = "deployed"
                    THEN Returns(k, loc[k], EmptyResult, "nil")
                    ELSE /\ loc' = [loc EXCEPT ![k] = l]
                         /\ Goto(k, "getToken")
    /\ UNCHANGED <<nameCall, applyCall, pairRun, httpCall, eventCall, annotateCall, keys, capi, nsLabel, rancher, token, workload, queue, ret, hist>>

\* Mutant: the result of ShouldAutoImport is ignored.
NotAutoImporting_Ignored(shouldImport) == FALSE

\* reconcileNormal's test of what ShouldAutoImport returned: !shouldImport.
NotAutoImporting(shouldImport) == ~shouldImport

\* reconcileNormal: the eligibility check of the not-found branch.
CheckImport(k) ==
    /\ pc[k] = "shouldImport"
    /\ \/ /\ Log(k, "ShouldAutoImport", "error")
          /\ Returns(k, loc[k], EmptyResult, "should auto import")
       \/ LET shouldImport == ShouldAutoImport(loc[k].capiCluster, nsLabel)
          IN  /\ Log(k, "ShouldAutoImport", IF shouldImport THEN "true" ELSE "false")
              /\ IF NotAutoImporting(shouldImport)
                 THEN Returns(k, loc[k], EmptyResult, "nil")
                 ELSE /\ Goto(k, "createRancher")
                      /\ UNCHANGED loc
    /\ UNCHANGED <<nameCall, applyCall, pairRun, httpCall, eventCall, annotateCall, keys, capi, nsLabel, rancher, token, workload, queue, ret, hist>>

\* Mutant: the created Rancher cluster lacks the owned label.
newRancherCluster_NoLabel(k) ==
    [exists |-> TRUE, deleting |-> FALSE, clusterName |-> <<>>,
     agentDeployed |-> FALSE, labels |-> {},
     owners |-> << [apiVersion |-> "cluster.x-k8s.io/v1beta1", kind |-> "Cluster",
                    name |-> k, uid |-> UID(k)] >>]

\* The Rancher cluster reconcileNormal creates.
newRancherCluster(k) ==
    [exists |-> TRUE, deleting |-> FALSE, clusterName |-> <<>>,
     agentDeployed |-> FALSE, labels |-> {ownedLabelName},
     owners |-> << [apiVersion |-> "cluster.x-k8s.io/v1beta1", kind |-> "Cluster",
                    name |-> k, uid |-> UID(k)] >>]

\* reconcileNormal: create the Rancher cluster and requeue.
CreateRancher(k) ==
    /\ pc[k] = "createRancher"
    /\ LET rn == ToRancherName(k)
           l == [loc[k] EXCEPT !.sent = Append(@, [name |-> rn, obj |-> newRancherCluster(k)])]
       IN  \/ /\ Log(k, "CreateRancher", "error")
              /\ Returns(k, l, EmptyResult, "error creating rancher cluster")
              /\ UNCHANGED <<rancher, hist>>
           \/ /\ ~rancher[rn].exists
              /\ rancher' = [rancher EXCEPT ![rn] = newRancherCluster(k)]
              /\ hist' = [hist EXCEPT ![k].rancherCreated = @ + 1]
              /\ Log(k, "CreateRancher", "ok")
              /\ Returns(k, l, Result(TRUE, 0), "nil")
    /\ UNCHANGED <<nameCall, applyCall, pairRun, httpCall, eventCall, annotateCall, keys, capi, nsLabel, token, workload, queue, ret>>

\* reconcileNormal goes on to apply the manifest: no error from
\* getClusterRegistrationManifest, and the manifest is not "".
manifestReady(manifest, err) == err = "nil" /\ manifest # EmptyBody

\* What reconcileNormal returns instead of applying.
manifestNotReady(manifest, err) ==
    IF err # "nil" THEN [result |-> EmptyResult, err |-> err]
    ELSE [result |-> WaitForManifest, err |-> "nil"]

\* getClusterRegistrationManifest: look the registration token up.
GetToken(k) ==
    /\ pc[k] = "getToken"
    /\ LET tn == loc[k].rancherCluster.clusterName
       IN  \/ /\ Log(k, "GetToken", "error")
              /\ Returns(k, loc[k], EmptyResult, "error getting registration token")
           \/ /\ ~token[tn].exists
              /\ Log(k, "GetToken", "notfound")
              /\ Goto(k, "createToken")
              /\ UNCHANGED loc
           \/ /\ token[tn].exists
              /\ ops' = [ops EXCEPT ![k] = @ \o
                           <<Op("GetToken", "found"),
                             Op("ManifestURL", IF token[tn].manifestURL THEN "set" ELSE "empty")>>]
              /\ IF ~token[tn].manifestURL
                 THEN Returns(k, loc[k], manifestNotReady(EmptyBody, "nil").result, "nil")
                 ELSE /\ Goto(k, "download")
                      /\ UNCHANGED loc
    /\ UNCHANGED <<nameCall, applyCall, pairRun, httpCall, eventCall, annotateCall, keys, capi, nsLabel, rancher, token, workload, queue, ret, hist>>

\* Mutant: the token is created without the cluster name in its spec.
newToken_NoSpecClusterName(tn) ==
    [exists |-> TRUE, specClusterName |-> <<>>, manifestURL |-> FALSE]

\* The token getClusterRegistrationManifest creates.
newToken(tn) == [exists |-> TRUE, specClusterName |-> tn, manifestURL |-> FALSE]

\* getClusterRegistrationManifest: create the token; its status is empty, so
\* the manifest is "" and reconcileNormal requeues.
CreateToken(k) ==
    /\ pc[k] = "createToken"
    /\ LET tn == loc[k].rancherCluster.clusterName
       IN  \/ /\ Log(k, "CreateToken", "error")
              /\ Returns(k, loc[k], EmptyResult, "failed to create cluster registration token")
              /\ UNCHANGED <<token, hist>>
           \/ /\ ~token[tn].exists
              /\ token' = [token EXCEPT ![tn] = newToken(tn)]
              /\ hist' = [hist EXCEPT ![k].tokenCreated = @ + 1]
              /\ Log(k, "CreateToken", "ok")
              /\ Returns(k, loc[k], manifestNotReady(EmptyBody, "nil").result, "nil")
    /\ UNCHANGED <<nameCall, applyCall, pairRun, httpCall, eventCall, annotateCall, keys, capi, nsLabel, rancher, workload, queue, ret>>

\* What the server of the manifest URL may answer: the transport fails, or a
\* response with a status code arrives whose body can be read to its end or
\* not.
StatusCodes == {"200", "204", "404", "500", "503"}
Responses(bodies) ==
    [transportOK : BOOLEAN, status : StatusCodes, body : bodies, readOK : BOOLEAN]

\* What downloadManifest returns, and the calls it made on the way.
Downloaded(data, err, calls) == [data |-> data, err |-> err, calls |-> calls]

\* Mutant: the body is closed after a successful read only, not deferred.
downloadManifest_NoDefer(resp) ==
    IF ~resp.transportOK
    THEN Downloaded(EmptyBody, "downloading manifest", <<"Get">>)
    ELSE IF ~resp.readOK
    THEN Downloaded(EmptyBody, "reading manifest", <<"Get", "ReadAll">>)
    ELSE Downloaded(resp.body, "nil", <<"Get", "ReadAll", "Close">>)

\* Mutant: a status of 400 and above is an error.
downloadManifest_ChecksStatus(resp) ==
    IF ~resp.transportOK
    THEN Downloaded(EmptyBody, "downloading manifest", <<"Get">>)
    ELSE IF resp.status \in {"404", "500", "503"}
    THEN Downloaded(EmptyBody, "downloading manifest", <<"Get", "Close">>)
    ELSE IF ~resp.readOK
    THEN Downloaded(EmptyBody, "reading manifest", <<"Get", "ReadAll", "Close">>)
    ELSE Downloaded(resp.body, "nil", <<"Get", "ReadAll", "Close">>)

\* downloadManifest: client.Get, defer resp.Body.Close(), io.ReadAll.
downloadManifest(resp) ==
    IF ~resp.transportOK
    THEN Downloaded(EmptyBody, "downloading manifest", <<"Get">>)
    ELSE IF ~resp.readOK
    THEN Downloaded(EmptyBody, "reading manifest", <<"Get", "ReadAll", "Close">>)
    ELSE Downloaded(resp.body, "nil", <<"Get", "ReadAll", "Close">>)

\* downloadManifest, and reconcileNormal's test of an empty manifest.
Download(k) ==
    /\ pc[k] = "download"
    /\ \E resp \in Responses(Bodies) :
         LET d == downloadManifest(resp)
         IN  /\ Log(k, "Download", CASE d.err = "downloading manifest" -> "transport error"
                                      [] d.err = "reading manifest" -> "read error"
                                      [] OTHER -> "ok")
             /\ IF manifestReady(d.data, d.err)
                THEN /\ loc' = [loc EXCEPT ![k].manifest = d.data]
                     /\ Goto(k, "apply")
                ELSE Returns(k, loc[k], manifestNotReady(d.data, d.err).result,
                             manifestNotReady(d.data, d.err).err)
    /\ UNCHANGED <<nameCall, applyCall, pairRun, httpCall, eventCall, annotateCall, keys, capi, nsLabel, rancher, token, workload, queue, ret, hist>>

\* The creations the workload cluster may refuse during one apply.
FailChoices == {{}} \cup {{o} : o \in Objects}

\* Mutant: the manifest is applied with the reconciler's own client.
remoteClientGetter_ManagementClient(k) == ManagementCluster

\* r.remoteClientGetter (remote.NewClusterClient): the cluster the client
\* obtained for CAPI cluster k creates objects in.
remoteClientGetter(k) == k

\* reconcileNormal: the remote client of the CAPI cluster's workload cluster,
\* and createImportManifest against it.
ApplyManifest(k) ==
    /\ pc[k] = "apply"
    /\ \/ /\ Log(k, "RemoteClient", "error")
          /\ Returns(k, loc[k], EmptyResult, "getting remote cluster client")
          /\ UNCHANGED workload
       \/ \E fail \in FailChoices :
            LET remoteClient == remoteClientGetter(k)
                r == createImportManifest(workload[remoteClient], loc[k].manifest, fail)
            IN  /\ workload' = [workload EXCEPT ![remoteClient] = r.objs]
                /\ ops' = [ops EXCEPT ![k] = @ \o
                             <<Op("RemoteClient", "ok"),
                               Op("Apply", IF r.err = "nil" THEN "ok" ELSE "error")>>]
                /\ Returns(k, [loc[k] EXCEPT !.calls = r.calls], EmptyResult,
                           IF r.err = "nil" THEN "nil" ELSE "creating import manifest")

\* Mutant: the reconciler marks the agent deployed itself once it has applied
\* the manifest.
Apply_MarksAgentDeployed(k) ==
    /\ ApplyManifest(k)
    /\ rancher' = [rancher EXCEPT ![ToRancherName(k)] =
                     IF @.exists THEN [@ EXCEPT !.agentDeployed = TRUE] ELSE @]
    /\ UNCHANGED <<nameCall, applyCall, pairRun, httpCall, eventCall, annotateCall, keys, capi, nsLabel, token, queue, ret, hist>>

\* The apply step: nothing of the management cluster is written.
Apply(k) ==
    /\ ApplyManifest(k)
    /\ UNCHANGED <<nameCall, applyCall, pairRun, httpCall, eventCall, annotateCall, keys, capi, nsLabel, rancher, token, queue, ret, hist>>

\* Mutant: the patch always writes the annotations.
PatchChanges_Always(cur, base) == {"imported"}

\* client.MergeFrom: the fields of capiCluster that differ from patchBase.
PatchChanges(cur, base) ==
    {f \in {"label", "imported"} : cur[f] # base[f]}

\* The CAPI cluster after the API server applied the merge patch: the changed
\* fields take the patch's values, and a change gives a new resource version.
Patched(obj, cur, base) ==
    LET d == PatchChanges(cur, base)
    IN  IF d = {} THEN obj
        ELSE [obj EXCEPT !.label = IF "label" \in d THEN cur.label ELSE @,
                         !.imported = IF "imported" \in d THEN cur.imported ELSE @,
                         !.rv = @ + 1]

\* Mutant: the patch error is reported only when reconcile succeeded.
ReconcileReturn_FirstErrorOnly(result, err, patchErr) ==
    LET errs == IF err # "nil" THEN <<"error reconciling cluster">>
                ELSE IF patchErr THEN <<"failed to patch cluster">> ELSE <<>>
    IN  [set |-> TRUE,
         res |-> IF Len(errs) > 0 THEN EmptyResult ELSE result,
         err |-> errs]

\* Mutant: the transition function's result is returned with the errors.
ReconcileReturn_KeepsResult(result, err, patchErr) ==
    LET errs == (IF err # "nil" THEN <<"error reconciling cluster">> ELSE <<>>)
                \o (IF patchErr THEN <<"failed to patch cluster">> ELSE <<>>)
    IN  [set |-> TRUE, res |-> result, err |-> errs]

\* Reconcile's return after the patch: the aggregate of the errors, or the
\* transition function's result.
ReconcileReturn(result, err, patchErr) ==
    LET errs == (IF err # "nil" THEN <<"error reconciling cluster">> ELSE <<>>)
                \o (IF patchErr THEN <<"failed to patch cluster">> ELSE <<>>)
    IN  [set |-> TRUE,
         res |-> IF Len(errs) > 0 THEN EmptyResult ELSE result,
         err |-> errs]

\* Mutant: client.MergeFrom without the optimistic lock.
PatchConflicts_NoLock(obj, base) == ~obj.exists

\* client.MergeFromWithOptimisticLock: the API server refuses the patch when
\* the object is gone or its resource version is not the one that was read.
PatchConflicts(obj, base) == ~obj.exists \/ obj.rv # base.rv

\* Reconcile: patch the CAPI cluster under the optimistic lock, and return.
Patch(k) ==
    /\ pc[k] = "patch"
    /\ \/ /\ Log(k, "Patch", "error")
          /\ ret' = [ret EXCEPT ![k] = ReconcileReturn(loc[k].result, loc[k].err, TRUE)]
          /\ UNCHANGED capi
       \/ /\ ~PatchConflicts(capi[k], loc[k].patchBase)
          /\ capi' = [capi EXCEPT ![k] = Patched(@, loc[k].capiCluster, loc[k].patchBase)]
          /\ Log(k, "Patch", "ok")
          /\ ret' = [ret EXCEPT ![k] = ReconcileReturn(loc[k].result, loc[k].err, FALSE)]
    /\ Goto(k, "done")
    /\ UNCHANGED <<nameCall, applyCall, pairRun, httpCall, eventCall, annotateCall, keys, nsLabel, rancher, token, workload, queue, loc, hist>>

\* The queue's handling of what Reconcile returned.
Requeues(r) == r.res.Requeue \/ r.res.RequeueAfter > 0 \/ r.err # <<>>

\* Reconcile has returned: the worker is free, the key is requeued if asked.
Finish(k) ==
    /\ pc[k] = "done"
    /\ queue' = [queue EXCEPT ![k] = @ \/ Requeues(ret[k])]
    /\ Goto(k, "idle")
    /\ loc' = [loc EXCEPT ![k] = NoLoc]
    /\ ops' = [ops EXCEPT ![k] = <<>>]
    /\ ret' = [ret EXCEPT ![k] = NoRet]
    /\ hist' = [hist EXCEPT ![k].phase =
                  IF @ = "running"
                  THEN (IF ret[k].err = <<>> THEN "settled" ELSE "changed")
                  ELSE @]
    /\ UNCHANGED <<nameCall, applyCall, pairRun, httpCall, eventCall, annotateCall, keys, capi, nsLabel, rancher, token, workload>>

Reconciler(k) ==
    \/ Start(k)
    \/ GetCapi(k)
    \/ GetRancher(k)
    \/ GetRancher2(k)
    \/ CheckImport(k)
    \/ CreateRancher(k)
    \/ GetToken(k)
    \/ CreateToken(k)
    \/ Download(k)
    \/ Apply(k)
    \/ Patch(k)
    \/ Finish(k)

\* ------------------------------------------------------- the other actors

\* An event of a watched object reaches the controller: the key is queued if
\* the CAPI cluster passes the predicates as it is now.
Enqueue(k) ==
    /\ k \in keys
    /\ capi[k].exists
    /\ capiPredicates(capi[k], nsLabel)
    /\ ~queue[k]
    /\ queue' = [queue EXCEPT ![k] = TRUE]
    /\ UNCHANGED <<nameCall, applyCall, pairRun, httpCall, eventCall, annotateCall, keys, capi, nsLabel, rancher, token, workload, pc, loc, ops, ret, hist>>

\* Another writer (a user, the CAPI controllers) updates the CAPI cluster: its
\* status flag and its import label, possibly to the values they have.
CapiUpdate(k) ==
    /\ k \in keys
    /\ capi[k].exists
    /\ capi[k].rv < MaxRV
    /\ \E r, l \in BOOLEAN :
         capi' = [capi EXCEPT ![k] = [@ EXCEPT !.ready = r, !.label = l, !.rv = @ + 1]]
    /\ ExternalChange
    /\ UNCHANGED <<nameCall, applyCall, pairRun, httpCall, eventCall, annotateCall, keys, nsLabel, rancher, token, workload, queue, pc, loc, ops, ret>>

\* The CAPI cluster is deleted.
CapiDelete(k) ==
    /\ k \in keys
    /\ capi[k].exists
    /\ capi' = [capi EXCEPT ![k] = NoCapi]
    /\ ExternalChange
    /\ UNCHANGED <<nameCall, applyCall, pairRun, httpCall, eventCall, annotateCall, keys, nsLabel, rancher, token, workload, queue, pc, loc, ops, ret>>

\* A user sets or removes the namespace's import label.
NamespaceUpdate ==
    /\ nsLabel' = ~nsLabel
    /\ ExternalChange
    /\ UNCHANGED <<nameCall, applyCall, pairRun, httpCall, eventCall, annotateCall, keys, capi, rancher, token, workload, queue, pc, loc, ops, ret>>

\* A user creates a Rancher cluster by hand: no owned label, no owner.
UserCreateRancher(rn) ==
    /\ ~rancher[rn].exists
    /\ rancher' = [rancher EXCEPT ![rn] = [NoRancher EXCEPT !.exists = TRUE]]
    /\ ExternalChange
    /\ UNCHANGED <<nameCall, applyCall, pairRun, httpCall, eventCall, annotateCall, keys, capi, nsLabel, token, workload, queue, pc, loc, ops, ret>>

\* Rancher's controllers publish the cluster name in the status.
RancherSetClusterName(rn) ==
    /\ rancher[rn].exists
    /\ rancher[rn].clusterName = <<>>
    /\ rancher' = [rancher EXCEPT ![rn].clusterName = StatusName(rn)]
    /\ ExternalChange
    /\ UNCHANGED <<nameCall, applyCall, pairRun, httpCall, eventCall, annotateCall, keys, capi, nsLabel, token, workload, queue, pc, loc, ops, ret>>

\* The agent reports in: Rancher marks the agent deployed.
RancherSetAgentDeployed(rn) ==
    /\ rancher[rn].exists
    /\ rancher[rn].clusterName # <<>>
    /\ ~rancher[rn].agentDeployed
    /\ rancher' = [rancher EXCEPT ![rn].agentDeployed = TRUE]
    /\ ExternalChange
    /\ UNCHANGED <<nameCall, applyCall, pairRun, httpCall, eventCall, annotateCall, keys, capi, nsLabel, token, workload, queue, pc, loc, ops, ret>>

\* The Rancher cluster is deleted: the deletion timestamp is set.
RancherDelete(rn) ==
    /\ rancher[rn].exists
    /\ ~rancher[rn].deleting
    /\ rancher' = [rancher EXCEPT ![rn].deleting = TRUE]
    /\ ExternalChange
    /\ UNCHANGED <<nameCall, applyCall, pairRun, httpCall, eventCall, annotateCall, keys, capi, nsLabel, token, workload, queue, pc, loc, ops, ret>>

\* Its finalizers are done: the Rancher cluster disappears.
RancherRemove(rn) ==
    /\ rancher[rn].exists
    /\ rancher[rn].deleting
    /\ rancher' = [rancher EXCEPT ![rn] = NoRancher]
    /\ ExternalChange
    /\ UNCHANGED <<nameCall, applyCall, pairRun, httpCall, eventCall, annotateCall, keys, capi, nsLabel, token, workload, queue, pc, loc, ops, ret>>

\* Rancher's controllers publish the manifest URL in the token's status.
TokenSetManifestURL(tn) ==
    /\ token[tn].exists
    /\ ~token[tn].manifestURL
    /\ token' = [token EXCEPT ![tn].manifestURL = TRUE]
    /\ ExternalChange
    /\ UNCHANGED <<nameCall, applyCall, pairRun, httpCall, eventCall, annotateCall, keys, capi, nsLabel, rancher, workload, queue, pc, loc, ops, ret>>

\* The Rancher clusters and tokens of the scenario's CAPI clusters.
ScenarioRancherNames == {ToRancherName(k) : k \in keys}

Environment ==
    \/ \E k \in AllNames : Enqueue(k)
    \/ \E k \in AllNames : CapiUpdate(k)
    \/ \E k \in AllNames : CapiDelete(k)
    \/ NamespaceUpdate
    \/ \E rn \in ScenarioRancherNames : RancherSetClusterName(rn)
    \/ \E rn \in ScenarioRancherNames : RancherSetAgentDeployed(rn)
    \/ \E rn \in ScenarioRancherNames : RancherDelete(rn)
    \/ \E rn \in ScenarioRancherNames : RancherRemove(rn)
    \/ \E rn \in ScenarioRancherNames : TokenSetManifestURL(StatusName(rn))

\* ------------------------------------------------------------ specification

\* One CAPI cluster with a ready control plane, labelled for import or not,
\* in a namespace labelled or not; nothing of Rancher's exists yet.
InitManagement ==
    /\ keys = {NameA}
    /\ \E l \in BOOLEAN :
         capi = [k \in AllNames |->
                   IF k = NameA
                   THEN [exists |-> TRUE, ready |-> TRUE, conditionTrue |-> FALSE, label |-> l,
                         imported |-> FALSE, rv |-> 0]
                   ELSE NoCapi]
    /\ nsLabel \in BOOLEAN
    /\ rancher = [rn \in RancherNames |-> NoRancher]
    /\ token = [tn \in TokenNames |-> NoToken]
    /\ workload = [c \in Clusters |-> {}]
    /\ queue = [k \in AllNames |-> FALSE]
    /\ pc = [k \in AllNames |-> "idle"]
    /\ loc = [k \in AllNames |-> NoLoc]
    /\ ops = [k \in AllNames |-> <<>>]
    /\ ret = [k \in AllNames |-> NoRet]
    /\ hist = [k \in AllNames |-> NoHist]

Init ==
    /\ InitManagement
    /\ nameCall = NoNameCall
    /\ applyCall = NoApplyCall
    /\ pairRun = NoPairRun
    /\ httpCall = NoHttpCall
    /\ eventCall = NoEventCall
    /\ annotateCall = NoAnnotateCall

Next ==
    \/ \E k \in AllNames : Reconciler(k)
    \/ Environment

Spec == Init /\ [][Next]_vars

\* ------------------------------------------------- the import, to its end

\* The call just made by key k met no fault of the API servers or the
\* network: a Create fails only with AlreadyExists, the patch only with a
\* conflict, and the download serves the import manifest.
NoInjectedFault(k) ==
    /\ \A i \in (Len(ops[k]) + 1)..Len(ops'[k]) :
         ops'[k][i].out \in {"error", "transport error", "read error"}
           => \/ /\ ops'[k][i].op = "CreateRancher"
                 /\ rancher[ToRancherName(k)].exists
              \/ /\ ops'[k][i].op = "CreateToken"
                 /\ token[loc[k].rancherCluster.clusterName].exists
              \/ /\ ops'[k][i].op = "Patch"
                 /\ PatchConflicts(capi[k], loc[k].patchBase)
    /\ pc[k] = "download" => pc'[k] = "apply"

\* The actors that move an import forward: events, and Rancher's controllers
\* publishing the cluster name and the manifest URL. Nobody deletes or
\* relabels anything.
EnvironmentLive ==
    \/ \E k \in AllNames : Enqueue(k)
    \/ \E rn \in ScenarioRancherNames : RancherSetClusterName(rn)
    \/ \E rn \in ScenarioRancherNames : TokenSetManifestURL(StatusName(rn))

\* An eligible CAPI cluster with a ready control plane whose creation event
\* has put its key in the queue.
InitLive ==
    /\ keys = {NameA}
    /\ \E l \in BOOLEAN :
         capi = [k \in AllNames |->
                   IF k = NameA
                   THEN [exists |-> TRUE, ready |-> TRUE, conditionTrue |-> FALSE, label |-> l,
                         imported |-> FALSE, rv |-> 0]
                   ELSE NoCapi]
    /\ nsLabel \in BOOLEAN
    /\ capi[NameA].label \/ nsLabel
    /\ rancher = [rn \in RancherNames |-> NoRancher]
    /\ token = [tn \in TokenNames |-> NoToken]
    /\ workload = [c \in Clusters |-> {}]
    /\ queue = [k \in AllNames |-> k = NameA]
    /\ pc = [k \in AllNames |-> "idle"]
    /\ loc = [k \in AllNames |-> NoLoc]
    /\ ops = [k \in AllNames |-> <<>>]
    /\ ret = [k \in AllNames |-> NoRet]
    /\ hist = [k \in AllNames |-> NoHist]
    /\ nameCall = NoNameCall
    /\ applyCall = NoApplyCall
    /\ pairRun = NoPairRun
    /\ httpCall = NoHttpCall
    /\ eventCall = NoEventCall
    /\ annotateCall = NoAnnotateCall

NextLive ==
    \/ \E k \in AllNames : Reconciler(k)
    \/ EnvironmentLive

\* No call made in this step meets a fault.
FaultFree == \A k \in AllNames : (pc'[k] # pc[k]) => NoInjectedFault(k)

\* The queue hands over every key it holds and takes back every key whose
\* Reconcile asked for it or failed; an invocation in flight makes its next
\* call; Rancher's controllers do their part; and from some time on the
\* calls meet no fault.
FairLive ==
    /\ WF_vars(Reconciler(NameA))
    /\ WF_vars(RancherSetClusterName(ToRancherName(NameA)))
    /\ WF_vars(TokenSetManifestURL(StatusName(ToRancherName(NameA))))
    /\ <>[][FaultFree]_vars

SpecLive == InitLive /\ [][NextLive]_vars /\ FairLive

\* ------------------------------------------ the readiness guard, every case

\* An eligible CAPI cluster whose key is in the queue, with every combination
\* of the status flag and the ControlPlaneReady condition.
InitReady ==
    /\ keys = {NameA}
    /\ \E r, c, l \in BOOLEAN :
         capi = [k \in AllNames |->
                   IF k = NameA
                   THEN [exists |-> TRUE, ready |-> r, conditionTrue |-> c, label |-> l,
                         imported |-> FALSE, rv |-> 0]
                   ELSE NoCapi]
    /\ nsLabel \in BOOLEAN
    /\ rancher = [rn \in RancherNames |-> NoRancher]
    /\ token = [tn \in TokenNames |-> NoToken]
    /\ workload = [c \in Clusters |-> {}]
    /\ queue = [k \in AllNames |-> k = NameA]
    /\ pc = [k \in AllNames |-> "idle"]
    /\ loc = [k \in AllNames |-> NoLoc]
    /\ ops = [k \in AllNames |-> <<>>]
    /\ ret = [k \in AllNames |-> NoRet]
    /\ hist = [k \in AllNames |-> NoHist]
    /\ nameCall = NoNameCall
    /\ applyCall = NoApplyCall
    /\ pairRun = NoPairRun
    /\ httpCall = NoHttpCall
    /\ eventCall = NoEventCall
    /\ annotateCall = NoAnnotateCall

SpecReady == InitReady /\ [][NextLive]_vars

\* ------------------------------------- the manifest applier, on its own

reconcilerVarsOnly ==
    <<keys, capi, nsLabel, rancher, token, workload, queue, pc, loc, ops, ret, hist>>

reconcilerVars ==
    <<keys, capi, nsLabel, rancher, token, workload, queue, pc, loc, ops, ret, hist, pairRun,
      httpCall, eventCall, annotateCall>>

\* The object lists of one document: no object twice in a document.
ItemLists ==
    {l \in UNION {[1..n -> Objects] : n \in 0..MaxItems} :
        \A i, j \in 1..Len(l) : l[i] = l[j] => i = j}

Docs == {[valid |-> TRUE, items |-> l] : l \in ItemLists}

\* The manifest streams: documents that parse, no object in two documents.
ManifestBodies ==
    {b \in UNION {[1..n -> Docs] : n \in 0..MaxDocs} :
        \A i, j \in 1..Len(b) :
            i # j => \A x \in 1..Len(b[i].items), y \in 1..Len(b[j].items) :
                       b[i].items[x] # b[j].items[y]}

\* The stream as the reader delivers it when document `bad` (none when 0)
\* arrives as bytes that do not parse.
Corrupt(body, bad) ==
    IF bad = 0 THEN body ELSE [body EXCEPT ![bad].valid = FALSE]

\* createImportManifest is called on a cluster holding `objs`, with a stream
\* whose document `bad` does not parse, while the cluster refuses the
\* creation of the objects in `fail`.
ApplyFirst ==
    /\ applyCall.step = "input"
    /\ applyCall' = [applyCall EXCEPT
          !.step = "first",
          !.first = createImportManifest(applyCall.objs,
                                         Corrupt(applyCall.body, applyCall.bad),
                                         applyCall.fail)]
    /\ UNCHANGED <<reconcilerVars, nameCall>>

\* The cause of the abort is gone: createImportManifest is called again on
\* the cluster as the first call left it, with the stream intact.
ApplyAgain ==
    /\ applyCall.step = "first"
    /\ applyCall' = [applyCall EXCEPT
          !.step = "second",
          !.second = createImportManifest(applyCall.first.objs, applyCall.body, {})]
    /\ UNCHANGED <<reconcilerVars, nameCall>>

InitApply ==
    /\ InitManagement
    /\ nsLabel = FALSE
    /\ ~capi[NameA].label
    /\ nameCall = NoNameCall
    /\ pairRun = NoPairRun
    /\ httpCall = NoHttpCall
    /\ eventCall = NoEventCall
    /\ annotateCall = NoAnnotateCall
    /\ \E body \in ManifestBodies : \E bad \in 0..Len(body) :
       \E objs \in SUBSET Objects : \E fail \in FailChoices :
         applyCall = [step |-> "input", objs |-> objs, body |-> body, bad |-> bad,
                      fail |-> fail,
                      first |-> ApplyState({}, "nil", <<>>),
                      second |-> ApplyState({}, "nil", <<>>)]

NextApply ==
    \/ ApplyFirst
    \/ ApplyAgain

SpecApply == InitApply /\ [][NextApply]_vars

\* --------------------------------------- the name converter, on its own

\* The characters of the names examined: those of the suffix.
Alphabet == {"a", "-", "c", "p", "i"}

\* Every string of at most MaxNameLen characters.
Stems == UNION {[1..l -> Alphabet] : l \in 0..MaxNameLen}

\* The stem followed by k copies of the suffix.
RECURSIVE WithSuffixes(_, _)
WithSuffixes(stem, k) ==
    IF k = 0 THEN stem ELSE WithSuffixes(stem, k - 1) \o rancherCAPISuffix

\* The strings examined.
Names == {WithSuffixes(stem, k) : stem \in Stems, k \in 0..MaxSuffixes}

\* A valid cluster name: not empty, and neither starting nor ending with "-".
IsValidName(n) == Len(n) > 0 /\ n[1] # "-" /\ n[Len(n)] # "-"

\* Name(n).ToRancherName() is called on a CAPI cluster's name.
CallToRancherName ==
    /\ nameCall.step = "input"
    /\ nameCall' = [nameCall EXCEPT !.step = "rancher",
                                    !.rancherName = ToRancherName(nameCall.n)]
    /\ UNCHANGED <<reconcilerVars, applyCall>>

\* Name(rancherName).ToCapiName() is called on the name that came out.
CallToCapiName ==
    /\ nameCall.step = "rancher"
    /\ nameCall' = [nameCall EXCEPT !.step = "capi",
                                    !.capiName = ToCapiName(nameCall.rancherName)]
    /\ UNCHANGED <<reconcilerVars, applyCall>>

\* Name(rancherName).ToRancherName() is called on the name that came out.
CallToRancherNameAgain ==
    /\ nameCall.step = "rancher"
    /\ nameCall' = [nameCall EXCEPT !.step = "again",
                                    !.again = ToRancherName(nameCall.rancherName)]
    /\ UNCHANGED <<reconcilerVars, applyCall>>

\* Name(n).ToCapiName() is called on the string itself.
CallToCapiNameOfInput ==
    /\ nameCall.step = "input"
    /\ nameCall' = [nameCall EXCEPT !.step = "trimmed",
                                    !.trimmed = ToCapiName(nameCall.n)]
    /\ UNCHANGED <<reconcilerVars, applyCall>>

InitNames ==
    /\ InitManagement
    /\ nsLabel = FALSE
    /\ ~capi[NameA].label
    /\ applyCall = NoApplyCall
    /\ pairRun = NoPairRun
    /\ httpCall = NoHttpCall
    /\ eventCall = NoEventCall
    /\ annotateCall = NoAnnotateCall
    /\ \E n \in Names :
         nameCall = [step |-> "input", n |-> n, rancherName |-> <<>>, capiName |-> <<>>,
                     again |-> <<>>, trimmed |-> <<>>]

NextNames ==
    \/ CallToRancherName
    \/ CallToCapiName
    \/ CallToRancherNameAgain
    \/ CallToCapiNameOfInput

SpecNames == InitNames /\ [][NextNames]_vars

\* ------------------------------------- the manifest download, on its own

\* The bodies a server may send: nothing, the import manifest, or any
\* bounded stream of documents.
DownloadBodies == Bodies \cup ManifestBodies

\* downloadManifest is called with the response the server gives.
CallDownloadManifest ==
    /\ httpCall.step = "input"
    /\ httpCall' = [httpCall EXCEPT !.step = "downloaded",
                                    !.result = downloadManifest(httpCall.resp)]
    /\ UNCHANGED <<reconcilerVarsOnly, nameCall, applyCall, pairRun, eventCall, annotateCall>>

\* getClusterRegistrationManifest hands the result to reconcileNormal, which
\* applies the manifest or returns.
CallReconcileNormal ==
    /\ httpCall.step = "downloaded"
    /\ LET d == httpCall.result
       IN  httpCall' = [httpCall EXCEPT
                          !.step = "decided",
                          !.ready = manifestReady(d.data, d.err),
                          !.returned = manifestNotReady(d.data, d.err)]
    /\ UNCHANGED <<reconcilerVarsOnly, nameCall, applyCall, pairRun, eventCall, annotateCall>>

InitDownload ==
    /\ InitManagement
    /\ nsLabel = FALSE
    /\ ~capi[NameA].label
    /\ nameCall = NoNameCall
    /\ applyCall = NoApplyCall
    /\ pairRun = NoPairRun
    /\ eventCall = NoEventCall
    /\ annotateCall = NoAnnotateCall
    /\ \E resp \in Responses(DownloadBodies) :
         httpCall = [step |-> "input", resp |-> resp,
                     result |-> Downloaded(EmptyBody, "nil", <<>>),
                     ready |-> FALSE,
                     returned |-> [result |-> EmptyResult, err |-> "nil"]]

NextDownload ==
    \/ CallDownloadManifest
    \/ CallReconcileNormal

SpecDownload == InitDownload /\ [][NextDownload]_vars

\* ---------------------------------------------- the event mapping, on its own

\* Two namespaces, and the CAPI clusters a namespace may hold, in the order a
\* List returns them.
Ns1 == <<"n", "s", "1">>
Ns2 == <<"n", "s", "2">>
Namespaces == {Ns1, Ns2}
ClusterKeys ==
    << [Namespace |-> Ns1, Name |-> NameA], [Namespace |-> Ns1, Name |-> NameB],
       [Namespace |-> Ns2, Name |-> NameA], [Namespace |-> Ns2, Name |-> NameB] >>

\* What a CAPI cluster of the examined scenarios looks like: absent, passing
\* the predicates, or failing one of them.
ClusterStates ==
    { NoCapi,
      [NoCapi EXCEPT !.exists = TRUE, !.ready = TRUE, !.label = TRUE],
      [NoCapi EXCEPT !.exists = TRUE, !.ready = TRUE],
      [NoCapi EXCEPT !.exists = TRUE, !.label = TRUE],
      [NoCapi EXCEPT !.exists = TRUE, !.ready = TRUE, !.label = TRUE, !.imported = TRUE] }

\* The names of the Rancher clusters whose events are examined.
EventNames == {NameA, NameACapi, ToRancherName(NameB)}

\* The watched object of an event: a Rancher cluster, or a Namespace, which
\* is cluster-scoped and so has an empty metadata.namespace.
RancherClusterObject(ns, x) == [kind |-> "Cluster", namespace |-> ns, name |-> x]
NamespaceObject(n) == [kind |-> "Namespace", namespace |-> <<>>, name |-> n]

\* client.InNamespace: the empty namespace selects every namespace.
InNamespace(key, ns) == ns = <<>> \/ key.Namespace = ns

\* clusterPredicate.Generic on a CAPI cluster of the store.
PassesPredicates(store, labels, key) == capiPredicates(store[key], labels[key.Namespace])

\* rancherClusterToCapiCluster: the CAPI cluster named ToCapiName of the
\* Rancher cluster's name, in its namespace, if the Get finds it and the
\* predicates admit it.
rancherClusterToCapiCluster(store, labels, o, getErr) ==
    LET key == [Namespace |-> o.namespace, Name |-> ToCapiName(o.name)]
    IN  IF getErr \/ key \notin DOMAIN store \/ ~store[key].exists THEN <<>>
        ELSE IF ~PassesPredicates(store, labels, key) THEN <<>>
        ELSE <<key>>

\* namespaceToCapiClusters: nothing unless the namespace has the label; else
\* the clusters of r.Client.List(client.InNamespace(o.GetNamespace())) that
\* the predicates admit.
namespaceToCapiClusters(store, labels, o, listErr) ==
    IF ~labels[o.name] THEN <<>>
    ELSE IF listErr THEN <<>>
    ELSE LET listed(key) == store[key].exists /\ InNamespace(key, o.namespace)
             passes(key) == PassesPredicates(store, labels, key)
         IN  SelectSeq(SelectSeq(ClusterKeys, listed), passes)

\* The map function of the watch the event came from is called.
CallMapFunc ==
    /\ eventCall.step = "input"
    /\ LET e == eventCall
       IN  eventCall' =
             [e EXCEPT !.step = "mapped",
                       !.reqs = IF e.o.kind = "Namespace"
                                THEN namespaceToCapiClusters(e.store, e.labels, e.o, e.err)
                                ELSE rancherClusterToCapiCluster(e.store, e.labels, e.o, e.err)]
    /\ UNCHANGED <<reconcilerVarsOnly, nameCall, applyCall, pairRun, httpCall, annotateCall>>

\* EnqueueRequestsFromMapFunc puts the requests in the work queue, which
\* holds a key once.
EnqueueRequests ==
    /\ eventCall.step = "mapped"
    /\ eventCall' = [eventCall EXCEPT
                       !.step = "queued",
                       !.queued = {eventCall.reqs[i] : i \in 1..Len(eventCall.reqs)}]
    /\ UNCHANGED <<reconcilerVarsOnly, nameCall, applyCall, pairRun, httpCall, annotateCall>>

InitEvents ==
    /\ InitManagement
    /\ nsLabel = FALSE
    /\ ~capi[NameA].label
    /\ nameCall = NoNameCall
    /\ applyCall = NoApplyCall
    /\ pairRun = NoPairRun
    /\ httpCall = NoHttpCall
    /\ annotateCall = NoAnnotateCall
    /\ \E store \in [{ClusterKeys[i] : i \in 1..Len(ClusterKeys)} -> ClusterStates] :
       \E labels \in [Namespaces -> BOOLEAN] :
       \E o \in {RancherClusterObject(ns, x) : ns \in Namespaces, x \in EventNames}
                  \cup {NamespaceObject(n) : n \in Namespaces} :
       \E err \in BOOLEAN :
         eventCall = [step |-> "input", store |-> store, labels |-> labels, o |-> o,
                      err |-> err, reqs |-> <<>>, queued |-> {}]

NextEvents ==
    \/ CallMapFunc
    \/ EnqueueRequests

SpecEvents == InitEvents /\ [][NextEvents]_vars

\* ------------------------------------------- the annotation, on its own

\* Annotation keys a CAPI cluster may carry, and values they may have.
AnnotationKeys == {ClusterImportedAnnotation, "owner", "note"}
AnnotationValues == {"true", "false", "v"}

\* An annotation map: nil, or entries by key.
NoEntries == [a \in {} |-> "true"]
NilAnnotations == [isNil |-> TRUE, entries |-> NoEntries]
Annotations ==
    {NilAnnotations} \cup
    {[isNil |-> FALSE, entries |-> e] :
        e \in UNION {[d -> AnnotationValues] : d \in SUBSET AnnotationKeys}}

\* Mutant: reconcileDelete sets a map of its own.
reconcileDeleteAnnotations_FreshMap(annotations) ==
    [isNil |-> FALSE,
     entries |-> [a \in {ClusterImportedAnnotation} |-> "true"]]

\* reconcileDelete, on the annotation map: a nil map becomes an empty one,
\* the imported key is set to "true", the map is set on the cluster.
reconcileDeleteAnnotations(annotations) ==
    LET e == IF annotations.isNil THEN NoEntries ELSE annotations.entries
    IN  [isNil |-> FALSE,
         entries |-> [a \in DOMAIN e \cup {ClusterImportedAnnotation} |->
                        IF a = ClusterImportedAnnotation THEN "true" ELSE e[a]]]

\* The CAPI cluster of the reconciler's model that carries these annotations.
Annotated(annotations) ==
    [NoCapi EXCEPT !.exists = TRUE,
                   !.imported = ClusterImportedAnnotation \in DOMAIN annotations.entries]

CallReconcileDelete ==
    /\ annotateCall.step = "input"
    /\ annotateCall' = [annotateCall EXCEPT
                          !.step = "once",
                          !.once = reconcileDeleteAnnotations(annotateCall.before),
                          !.cluster = reconcileDelete(Annotated(annotateCall.before))]
    /\ UNCHANGED <<reconcilerVarsOnly, nameCall, applyCall, pairRun, httpCall, eventCall>>

CallReconcileDeleteAgain ==
    /\ annotateCall.step = "once"
    /\ annotateCall' = [annotateCall EXCEPT
                          !.step = "twice",
                          !.twice = reconcileDeleteAnnotations(annotateCall.once)]
    /\ UNCHANGED <<reconcilerVarsOnly, nameCall, applyCall, pairRun, httpCall, eventCall>>

InitAnnotations ==
    /\ InitManagement
    /\ nsLabel = FALSE
    /\ ~capi[NameA].label
    /\ nameCall = NoNameCall
    /\ applyCall = NoApplyCall
    /\ pairRun = NoPairRun
    /\ httpCall = NoHttpCall
    /\ eventCall = NoEventCall
    /\ \E before \in Annotations :
         annotateCall = [step |-> "input", before |-> before, once |-> NilAnnotations,
                         twice |-> NilAnnotations, cluster |-> NoCapi]

NextAnnotations ==
    \/ CallReconcileDelete
    \/ CallReconcileDeleteAgain

SpecAnnotations == InitAnnotations /\ [][NextAnnotations]_vars

\* ------------------------------------------- two keys, one invocation each

\* The pairs of distinct keys examined: two unrelated names, and a name with
\* the name that is it plus the suffix.
Pairs == {<<NameA, NameB>>, <<NameA, NameACapi>>}

\* How far the import of a Rancher cluster has got when the invocations start.
Stages == {"absent", "created", "named", "tokenNoURL", "tokenURL", "deployed", "deleting"}

\* The Rancher cluster of a stage; `owner` is the key it was created for.
StageRancher(stage, rn, owner) ==
    LET created == newRancherCluster(owner)
        named == [created EXCEPT !.clusterName = StatusName(rn)]
    IN  CASE stage = "absent" -> NoRancher
          [] stage = "created" -> created
          [] stage = "deployed" -> [named EXCEPT !.agentDeployed = TRUE]
          [] stage = "deleting" -> [named EXCEPT !.deleting = TRUE]
          [] OTHER -> named

\* The registration token of a stage.
StageToken(stage, tn) ==
    CASE stage = "tokenNoURL" -> newToken(tn)
      [] stage \in {"tokenURL", "deployed"} -> [newToken(tn) EXCEPT !.manifestURL = TRUE]
      [] OTHER -> NoToken

\* The calls of one Reconcile invocation, from the queue handing the key over
\* to Reconcile's return.
Invocation(k) ==
    \/ Start(k)
    \/ GetCapi(k)
    \/ GetRancher(k)
    \/ GetRancher2(k)
    \/ CheckImport(k)
    \/ CreateRancher(k)
    \/ GetToken(k)
    \/ CreateToken(k)
    \/ Download(k)
    \/ Apply(k)
    \/ Patch(k)

\* The schedule: first before second, second before first, or any
\* interleaving of the two invocations' calls.
PairTurn(k) ==
    CASE pairRun.phase = "AB" -> k = pairRun.first \/ pc[pairRun.first] = "done"
      [] pairRun.phase = "BA" -> k = pairRun.second \/ pc[pairRun.second] = "done"
      [] OTHER -> TRUE

PairStep(k) ==
    /\ k \in keys
    /\ PairTurn(k)
    /\ Invocation(k)
    /\ NoInjectedFault(k)

\* What the two invocations leave: the Rancher clusters, the registration
\* tokens and the CAPI clusters' imported annotations.
Outcome ==
    [rancher |-> rancher, token |-> token,
     imported |-> [k \in keys |-> capi[k].imported]]

\* Both invocations have returned.
PairDone == \A k \in keys : pc[k] = "done"

\* A sequential run is over: note its outcome and put the management cluster
\* back to the start state for the next schedule.
PairNextSchedule ==
    /\ pairRun.phase \in {"AB", "BA"}
    /\ PairDone
    /\ pairRun' = IF pairRun.phase = "AB"
                  THEN [pairRun EXCEPT !.phase = "BA", !.afterAB = Outcome]
                  ELSE [pairRun EXCEPT !.phase = "both", !.afterBA = Outcome]
    /\ capi' = pairRun.start.capi
    /\ rancher' = pairRun.start.rancher
    /\ token' = pairRun.start.token
    /\ workload' = [c \in Clusters |-> {}]
    /\ queue' = [k \in AllNames |-> k \in keys]
    /\ pc' = [k \in AllNames |-> "idle"]
    /\ loc' = [k \in AllNames |-> NoLoc]
    /\ ops' = [k \in AllNames |-> <<>>]
    /\ ret' = [k \in AllNames |-> NoRet]
    /\ hist' = [k \in AllNames |-> NoHist]
    /\ UNCHANGED <<nameCall, applyCall, httpCall, eventCall, annotateCall, keys, nsLabel>>

\* Two CAPI clusters with ready control planes, each labelled or not, and
\* for each Rancher name of theirs an import at some stage.
InitPair ==
    \E p \in Pairs :
      LET pairNames == {ToRancherName(p[1]), ToRancherName(p[2])}
          owner(rn) == IF ToRancherName(p[1]) = rn THEN p[1] ELSE p[2]
      IN  /\ keys = {p[1], p[2]}
          /\ \E l \in [{p[1], p[2]} -> BOOLEAN] :
               capi = [k \in AllNames |->
                         IF k \in {p[1], p[2]}
                         THEN [exists |-> TRUE, ready |-> TRUE, conditionTrue |-> FALSE,
                               label |-> l[k], imported |-> FALSE, rv |-> 0]
                         ELSE NoCapi]
          /\ nsLabel \in BOOLEAN
          /\ \E st \in [RancherNames -> Stages] :
               /\ \A rn \in RancherNames \ pairNames : st[rn] = "absent"
               /\ rancher = [rn \in RancherNames |-> StageRancher(st[rn], rn, owner(rn))]
               /\ token = [tn \in TokenNames |->
                             LET rn == CHOOSE r \in RancherNames : StatusName(r) = tn
                             IN  StageToken(st[rn], tn)]
          /\ workload = [c \in Clusters |-> {}]
          /\ queue = [k \in AllNames |-> k \in {p[1], p[2]}]
          /\ pc = [k \in AllNames |-> "idle"]
          /\ loc = [k \in AllNames |-> NoLoc]
          /\ ops = [k \in AllNames |-> <<>>]
          /\ ret = [k \in AllNames |-> NoRet]
          /\ hist = [k \in AllNames |-> NoHist]
          /\ nameCall = NoNameCall
          /\ applyCall = NoApplyCall
          /\ httpCall = NoHttpCall
          /\ eventCall = NoEventCall
          /\ annotateCall = NoAnnotateCall
          /\ pairRun = [phase |-> "AB", first |-> p[1], second |-> p[2],
                        start |-> [capi |-> capi, rancher |-> rancher, token |-> token],
                        afterAB |-> <<>>, afterBA |-> <<>>]

NextPair ==
    \/ \E k \in AllNames : PairStep(k)
    \/ PairNextSchedule

SpecPair == InitPair /\ [][NextPair]_vars

\* ------------------------------- one key, Rancher cluster owned or not

\* The Rancher cluster as somebody else would have created it: no owned
\* label, no owner reference.
Foreign(rc) == [rc EXCEPT !.labels = {}, !.owners = NoOwner]

\* What an invocation did: its calls with their outcomes, what it returned,
\* and what it left on the CAPI cluster, in the workload cluster and in the
\* tokens.
Conduct(k) ==
    [ops |-> ops[k], ret |-> ret[k], imported |-> capi[k].imported,
     workload |-> workload[k], token |-> token]

OwnerStep(k) ==
    /\ k \in keys
    /\ pairRun.phase \in {"owned", "foreign"}
    /\ Invocation(k)
    /\ NoInjectedFault(k)

\* The invocation that met the owned Rancher cluster has returned: note its
\* conduct and start again from the same state, the Rancher cluster now
\* without label and owner.
OwnerNextRun ==
    /\ pairRun.phase = "owned"
    /\ PairDone
    /\ pairRun' = [pairRun EXCEPT !.phase = "foreign", !.owned = Conduct(pairRun.first)]
    /\ capi' = pairRun.start.capi
    /\ rancher' = [rn \in RancherNames |-> Foreign(pairRun.start.rancher[rn])]
    /\ token' = pairRun.start.token
    /\ workload' = [c \in Clusters |-> {}]
    /\ queue' = [k \in AllNames |-> k \in keys]
    /\ pc' = [k \in AllNames |-> "idle"]
    /\ loc' = [k \in AllNames |-> NoLoc]
    /\ ops' = [k \in AllNames |-> <<>>]
    /\ ret' = [k \in AllNames |-> NoRet]
    /\ hist' = [k \in AllNames |-> NoHist]
    /\ UNCHANGED <<nameCall, applyCall, httpCall, eventCall, annotateCall, keys, nsLabel>>

\* A CAPI cluster with a ready control plane whose Rancher cluster exists, as
\* the reconciler creates it, at some stage of the import.
InitOwner ==
    /\ keys = {NameA}
    /\ \E l \in BOOLEAN :
         capi = [k \in AllNames |->
                   IF k = NameA
                   THEN [exists |-> TRUE, ready |-> TRUE, conditionTrue |-> FALSE, label |-> l,
                         imported |-> FALSE, rv |-> 0]
                   ELSE NoCapi]
    /\ nsLabel \in BOOLEAN
    /\ \E stage \in Stages \ {"absent"} :
         /\ rancher = [rn \in RancherNames |->
                         IF rn = ToRancherName(NameA)
                         THEN StageRancher(stage, rn, NameA) ELSE NoRancher]
         /\ token = [tn \in TokenNames |->
                       IF tn = StatusName(ToRancherName(NameA))
                       THEN StageToken(stage, tn) ELSE NoToken]
    /\ workload = [c \in Clusters |-> {}]
    /\ queue = [k \in AllNames |-> k = NameA]
    /\ pc = [k \in AllNames |-> "idle"]
    /\ loc = [k \in AllNames |-> NoLoc]
    /\ ops = [k \in AllNames |-> <<>>]
    /\ ret = [k \in AllNames |-> NoRet]
    /\ hist = [k \in AllNames |-> NoHist]
    /\ nameCall = NoNameCall
    /\ applyCall = NoApplyCall
    /\ httpCall = NoHttpCall
    /\ eventCall = NoEventCall
    /\ annotateCall = NoAnnotateCall
    /\ pairRun = [phase |-> "owned", first |-> NameA,
                  start |-> [capi |-> capi, rancher |-> rancher, token |-> token],
                  owned |-> <<>>]

NextOwner ==
    \/ \E k \in AllNames : OwnerStep(k)
    \/ OwnerNextRun

SpecOwner == InitOwner /\ [][NextOwner]_vars

\* ------------------------------------------------------------------- claims

\* The invocation of key k has made the call `name`.
Did(k, name) == \E i \in 1..Len(ops[k]) : ops[k][i].op = name

\* ... with the outcome `out`.
DidOut(k, name, out) == \E i \in 1..Len(ops[k]) : ops[k][i] = Op(name, out)

\* The number of calls `name` the invocation has made.
Count(k, name) == Cardinality({i \in 1..Len(ops[k]) : ops[k][i].op = name})

\* One of the invocation's calls failed.
Failed(k) ==
    \E i \in 1..Len(ops[k]) : ops[k][i].out \in {"error", "transport error", "read error"}

\* C1: a Create of a Rancher cluster is issued only by an invocation in which
\* ShouldAutoImport returned true and the fetched CAPI cluster's control plane
\* was ready.
C1_CreateOnlyIfEligibleAndReady ==
    \A k \in AllNames :
        (Did(k, "CreateRancher") \/ loc[k].sent # <<>>)
        => /\ DidOut(k, "ShouldAutoImport", "true")
           /\ DidOut(k, "GetCapi", "ready")
           /\ ~DidOut(k, "GetCapi", "notready")
           /\ ~DidOut(k, "ShouldAutoImport", "false")

C1_Witness ==
    /\ DidOut(NameA, "CreateRancher", "ok")
    /\ rancher[ToRancherName(NameA)].exists

\* The Rancher cluster the claims expect for CAPI cluster k.
ExpectedRancherCluster(k) ==
    [exists |-> TRUE, deleting |-> FALSE, clusterName |-> <<>>, agentDeployed |-> FALSE,
     labels |-> {"cluster-api.cattle.io/owned"},
     owners |-> << [apiVersion |-> "cluster.x-k8s.io/v1beta1", kind |-> "Cluster",
                    name |-> k, uid |-> UID(k)] >>]

\* The invocation of k found the cluster ready, no Rancher cluster, and
\* ShouldAutoImport true.
EligibleAndAbsent(k) ==
    /\ DidOut(k, "GetCapi", "ready")
    /\ DidOut(k, "GetRancher2", "notfound")
    /\ DidOut(k, "ShouldAutoImport", "true")

\* C2: a Reconcile that returns after it found the control plane ready, no
\* Rancher cluster and the cluster eligible has issued exactly one Create, of
\* a Rancher cluster named ToRancherName(k) with the owned label and the one
\* owner reference to the CAPI cluster; if none of its calls failed the cluster
\* was created and the return is an immediate requeue with no error; and every
\* Rancher cluster that exists carries that label and that owner reference.
C2_CreatesOneOwnedRancherCluster ==
    /\ \A k \in AllNames :
         (pc[k] = "done" /\ EligibleAndAbsent(k))
         => /\ Count(k, "CreateRancher") = 1
            /\ loc[k].sent = << [name |-> k \o <<"-", "c", "a", "p", "i">>,
                                 obj |-> ExpectedRancherCluster(k)] >>
            /\ ~Failed(k) =>
                 /\ DidOut(k, "CreateRancher", "ok")
                 /\ ret[k] = [set |-> TRUE,
                              res |-> [Requeue |-> TRUE, RequeueAfter |-> 0],
                              err |-> <<>>]
    /\ \A k \in keys :
         rancher[ToRancherName(k)].exists
         => /\ rancher[ToRancherName(k)].labels = ExpectedRancherCluster(k).labels
            /\ rancher[ToRancherName(k)].owners = ExpectedRancherCluster(k).owners

C2_Witness ==
    /\ pc[NameA] = "done"
    /\ EligibleAndAbsent(NameA)
    /\ ~Failed(NameA)
    /\ rancher[ToRancherName(NameA)] = ExpectedRancherCluster(NameA)

\* C3: a Reconcile that returns after it found no Rancher cluster and
\* ShouldAutoImport false has created nothing (no Rancher cluster, no token,
\* nothing on the workload cluster) and returns the empty result; the error is
\* nil unless the closing patch failed.
C3_NotEligibleCreatesNothing ==
    \A k \in AllNames :
        (pc[k] = "done" /\ DidOut(k, "GetRancher2", "notfound")
                        /\ DidOut(k, "ShouldAutoImport", "false"))
        => /\ ~Did(k, "CreateRancher")
           /\ ~Did(k, "GetToken")
           /\ ~Did(k, "CreateToken")
           /\ ~Did(k, "Download")
           /\ ~Did(k, "Apply")
           /\ loc[k].sent = <<>>
           /\ loc[k].calls = <<>>
           /\ ret[k].set
           /\ ret[k].res = [Requeue |-> FALSE, RequeueAfter |-> 0]
           /\ (ret[k].err # <<>>) <=> DidOut(k, "Patch", "error")

C3_Witness ==
    /\ pc[NameA] = "done"
    /\ DidOut(NameA, "GetRancher2", "notfound")
    /\ DidOut(NameA, "ShouldAutoImport", "false")
    /\ ret[NameA] = [set |-> TRUE, res |-> EmptyResult, err |-> <<>>]

\* C4: an invocation that fetched a CAPI cluster whose control plane is not
\* ready makes no other call (no read, no create, no patch) and returns
\* RequeueAfter = 1 minute with no error.
C4_NotReadyRequeuesWithoutWrites ==
    \A k \in AllNames :
        DidOut(k, "GetCapi", "notready")
        => /\ ops[k] = << Op("GetCapi", "notready") >>
           /\ pc[k] = "done"
           /\ loc[k].sent = <<>>
           /\ ret[k] = [set |-> TRUE,
                        res |-> [Requeue |-> FALSE, RequeueAfter |-> 60],
                        err |-> <<>>]

C4_Witness ==
    /\ pc[NameA] = "done"
    /\ DidOut(NameA, "GetCapi", "notready")

\* C5: a Reconcile that returns after it fetched the Rancher cluster with a
\* deletion timestamp has annotated its CAPI cluster as imported and made no
\* call but the closing patch; the result is empty; if the patch succeeded
\* the error is nil and the annotation is on the stored CAPI cluster.
C5_DeletingAnnotatesOnly ==
    \A k \in AllNames :
        (pc[k] = "done" /\ DidOut(k, "GetRancher", "deleting"))
        => /\ \E out \in {"ok", "error"} :
                ops[k] = << Op("GetCapi", "ready"), Op("GetRancher", "deleting"),
                            Op("reconcileDelete", "ok"), Op("Patch", out) >>
           /\ loc[k].capiCluster = [loc[k].patchBase EXCEPT !.imported = TRUE]
           /\ loc[k].sent = <<>>
           /\ loc[k].calls = <<>>
           /\ ret[k].res = [Requeue |-> FALSE, RequeueAfter |-> 0]
           /\ DidOut(k, "Patch", "ok") =>
                /\ ret[k].err = <<>>
                /\ capi[k].exists => capi[k].imported

C5_Witness ==
    /\ pc[NameA] = "done"
    /\ DidOut(NameA, "GetRancher", "deleting")
    /\ DidOut(NameA, "Patch", "ok")
    /\ capi[NameA].imported
    /\ ~loc[NameA].patchBase.imported

\* C6: an invocation whose fetch of the Rancher cluster (in reconcile) showed a
\* deletion timestamp takes the deletion branch and makes none of the calls of
\* the creation/update path, whatever the cluster's status says.
C6_DeletionTakesPrecedence ==
    \A k \in AllNames :
        DidOut(k, "GetRancher", "deleting")
        => /\ Did(k, "reconcileDelete")
           /\ \A i \in 1..Len(ops[k]) :
                ops[k][i].op \notin {"GetRancher2", "ShouldAutoImport", "CreateRancher",
                                     "GetToken", "CreateToken", "Download",
                                     "RemoteClient", "Apply"}

\* The deleting cluster's status asks for an import: named, agent not
\* deployed, token with a manifest URL.
C6_Witness ==
    /\ pc[NameA] = "done"
    /\ DidOut(NameA, "GetRancher", "deleting")
    /\ rancher[ToRancherName(NameA)].deleting
    /\ rancher[ToRancherName(NameA)].clusterName # <<>>
    /\ ~rancher[ToRancherName(NameA)].agentDeployed
    /\ token[StatusName(ToRancherName(NameA))].manifestURL

\* C7 (as claimed): once the CAPI cluster carries the imported annotation, no
\* step creates a Rancher cluster for it.
C7_NoReimportOnceAnnotated ==
    [][\A k \in AllNames :
          (capi[k].exists /\ capi[k].imported)
          => (rancher[ToRancherName(k)].exists \/ ~rancher'[ToRancherName(k)].exists)]_vars

\* C8: since the last change of the management cluster by another actor, the
\* reconciler has created at most one Rancher cluster and at most one token
\* for the CAPI cluster; an invocation whose latest fetch found the Rancher
\* cluster issues no Create for it; and once an invocation started on the
\* unchanged state has returned without error, no step of a further
\* invocation changes the management cluster.
C8_RedeliveryIdempotent ==
    /\ [](\A k \in AllNames :
            /\ hist[k].rancherCreated <= 1
            /\ hist[k].tokenCreated <= 1
            /\ (DidOut(k, "GetRancher2", "live") \/ DidOut(k, "GetRancher2", "deleting"))
               => ~Did(k, "CreateRancher"))
    /\ [][\A k \in AllNames :
            (hist[k].phase = "settled" /\ hist'[k].phase = "settled")
            => mgmt' = mgmt]_vars

\* A second invocation has run on the state the first, which created the
\* Rancher cluster, left behind.
C8_Witness ==
    /\ hist[NameA].phase = "settled"
    /\ hist[NameA].rancherCreated = 1
    /\ pc[NameA] = "done"
    /\ DidOut(NameA, "GetRancher2", "live")
    /\ DidOut(NameA, "Patch", "ok")

\* C9: the CAPI cluster the reconciler submits in its patch differs from the
\* one it fetched only by the imported annotation, and only in an invocation
\* that fetched the Rancher cluster with a deletion timestamp; and every
\* change a reconciler step makes to a stored CAPI cluster is that annotation
\* (with the new resource version the API server gives the object).
C9_OnlyImportedAnnotationOnDeletion ==
    /\ [](\A k \in AllNames :
            loc[k].capiCluster # loc[k].patchBase
            => /\ DidOut(k, "GetRancher", "deleting")
               /\ loc[k].capiCluster = [loc[k].patchBase EXCEPT !.imported = TRUE])
    /\ [][\A k \in AllNames :
            (pc' # pc /\ capi'[k] # capi[k])
            => /\ DidOut(k, "GetRancher", "deleting")
               /\ ~capi[k].imported
               /\ capi'[k] = [capi[k] EXCEPT !.imported = TRUE, !.rv = @ + 1]]_vars

\* The patch that carries the annotation is about to be sent for a labelled
\* cluster.
C9_Witness ==
    /\ pc[NameA] = "patch"
    /\ loc[NameA].capiCluster # loc[NameA].patchBase
    /\ loc[NameA].patchBase.label

\* C10: no step of the reconciler changes a Rancher cluster that exists.
C10_RancherClusterNeverUpdated ==
    [][pc' # pc
       => \A rn \in RancherNames : rancher[rn].exists => rancher'[rn] = rancher[rn]]_vars

\* The reconciler has applied the manifest for a Rancher cluster it created,
\* which Rancher's controllers have since given a status.
C10_Witness ==
    /\ pc[NameA] = "done"
    /\ DidOut(NameA, "Apply", "ok")
    /\ rancher[ToRancherName(NameA)].exists
    /\ rancher[ToRancherName(NameA)].labels = {ownedLabelName}
    /\ rancher[ToRancherName(NameA)].clusterName # <<>>

\* The objects a manifest's documents hold.
ManifestObjects(body) ==
    UNION {{body[i].items[j] : j \in 1..Len(body[i].items)} : i \in 1..Len(body)}

\* C11: manifest objects are created only by the apply step of an invocation,
\* and only in the workload cluster of that invocation's CAPI cluster: the
\* step leaves the management cluster's objects (CAPI clusters, namespace,
\* Rancher clusters, tokens) as they are, no other cluster gains an object,
\* and the management cluster never holds an object of the manifest.
C11_ManifestOnlyThroughRemoteClient ==
    /\ [](workload[ManagementCluster] = {})
    /\ [][\A c \in Clusters :
            workload'[c] # workload[c]
            => /\ c \in AllNames
               /\ pc[c] = "apply"
               /\ pc'[c] = "patch"
               /\ mgmt' = mgmt
               /\ workload[c] \subseteq workload'[c]
               /\ (workload'[c] \ workload[c]) \subseteq ManifestObjects(loc[c].manifest)
               /\ \A d \in Clusters \ {c} : workload'[d] = workload[d]]_vars

\* The invocation for cluster a has applied the whole manifest to a's
\* workload cluster.
C11_Witness ==
    /\ pc[NameA] = "patch"
    /\ DidOut(NameA, "Apply", "ok")
    /\ workload[NameA] = ManifestObjects(ImportManifest)
    /\ loc[NameA].calls = <<"ns", "sa", "deploy">>

\* The objects of the first n documents of a stream, in order.
RECURSIVE Flatten(_, _)
Flatten(body, n) ==
    IF n = 0 THEN <<>> ELSE Flatten(body, n - 1) \o body[n].items

\* The objects an application can get to: those of the documents before the
\* one that does not parse, all of them when every document parses.
Stream(body, bad) ==
    Flatten(body, IF bad = 0 THEN Len(body) ELSE bad - 1)

\* The object of the i-th Create of an application was on the cluster when
\* the call was made.
ExistedBefore(objs, calls, i) == calls[i] \in objs

\* C12: a Create answered AlreadyExists is a success: createObject returns
\* nil and leaves the cluster as it is; the application goes on with the next
\* object of the stream, in the same or in a later document; and when no
\* document fails to parse and no creation fails otherwise,
\* createImportManifest returns no error.
C12_AlreadyExistsIsSuccess ==
    applyCall.step # "input"
    => LET a == applyCall
           r == a.first
           s == Stream(a.body, a.bad)
       IN  /\ \A o \in a.objs \ a.fail :
                createObject(ApplyState(a.objs, "nil", <<>>), o, a.fail)
                  = ApplyState(a.objs, "nil", <<o>>)
           /\ \A i \in 1..Len(r.calls) :
                (ExistedBefore(a.objs, r.calls, i) /\ r.calls[i] \notin a.fail)
                => /\ i < Len(s) => (Len(r.calls) > i /\ r.calls[i + 1] = s[i + 1])
                   /\ (i = Len(s) /\ a.bad = 0) => r.err = "nil"
           /\ (a.bad = 0 /\ \A i \in 1..Len(s) : s[i] \notin a.fail) => r.err = "nil"

\* An application met an existing object first, went on through the rest of
\* its document and the next document, and returned no error.
C12_Witness ==
    /\ applyCall.step = "first"
    /\ applyCall.bad = 0
    /\ applyCall.fail = {}
    /\ Len(applyCall.body) = 2
    /\ applyCall.body[1].items = <<"ns", "sa">>
    /\ applyCall.body[2].items = <<"deploy">>
    /\ applyCall.objs = {"ns", "deploy"}
    /\ applyCall.first = ApplyState({"ns", "sa", "deploy"}, "nil", <<"ns", "sa", "deploy">>)

\* The set of the elements of a sequence.
Range(q) == {q[i] : i \in 1..Len(q)}

\* C13: when every document of the stream parses and the cluster refuses no
\* creation other than with AlreadyExists, createImportManifest issues one
\* Create per object of the stream, in stream order, leaves the cluster with
\* the objects it had and every object of the stream, and returns no error.
C13_OneCreatePerObject ==
    (/\ applyCall.step # "input"
     /\ applyCall.bad = 0
     /\ Range(Stream(applyCall.body, 0)) \cap applyCall.fail = {})
    => /\ applyCall.first.calls = Stream(applyCall.body, 0)
       /\ applyCall.first.objs = applyCall.objs \cup ManifestObjects(applyCall.body)
       /\ applyCall.first.err = "nil"

\* A stream of two documents was applied to a cluster that held one of its
\* three objects.
C13_Witness ==
    /\ applyCall.step = "first"
    /\ applyCall.bad = 0
    /\ applyCall.fail = {}
    /\ applyCall.objs = {"sa"}
    /\ Len(applyCall.body) = 2
    /\ applyCall.body[1].items = <<"ns", "sa">>
    /\ applyCall.body[2].items = <<"deploy">>
    /\ applyCall.first = ApplyState({"ns", "sa", "deploy"}, "nil", <<"ns", "sa", "deploy">>)

\* C14: when a document of the stream does not parse and no creation before
\* it is refused, createImportManifest returns the parse error, has issued a
\* Create for each object of the documents before it and for no other, and
\* the cluster holds what it held plus those objects. Whatever else fails,
\* no object of the invalid document or of a later one is attempted beyond
\* that prefix and nothing the cluster held is removed.
C14_InvalidDocumentAborts ==
    (applyCall.step # "input" /\ applyCall.bad > 0)
    => LET a == applyCall
           r == a.first
           s == Stream(a.body, a.bad)
       IN  /\ Len(r.calls) <= Len(s)
           /\ r.calls = SubSeq(s, 1, Len(r.calls))
           /\ a.objs \subseteq r.objs
           /\ r.err # "nil"
           /\ (Range(s) \cap a.fail = {})
              => /\ r.err = "error unmarshalling bytes or empty object passed"
                 /\ r.calls = s
                 /\ r.objs = a.objs \cup Range(s)

\* The second of two documents did not parse: the first document's objects
\* were created, the second's were not attempted.
C14_Witness ==
    /\ applyCall.step = "first"
    /\ applyCall.bad = 2
    /\ applyCall.fail = {}
    /\ applyCall.objs = {}
    /\ applyCall.body[1].items = <<"ns", "sa">>
    /\ applyCall.body[2].items = <<"deploy">>
    /\ applyCall.first = ApplyState({"ns", "sa"},
                                    "error unmarshalling bytes or empty object passed",
                                    <<"ns", "sa">>)

\* C15: when a creation of the apply step fails (every document of the
\* downloaded manifest parses), the Create calls issued are a non-empty
\* prefix of the manifest's objects ending with the failing one, the objects
\* of the calls before it are on the workload cluster, the failing call
\* added nothing, reconcile's error is set, and Reconcile returns an error
\* that contains it, with an empty result.
C15_CreateFailureAborts ==
    /\ [](\A k \in AllNames :
            DidOut(k, "Apply", "error")
            => LET c == loc[k].calls
                   s == Stream(loc[k].manifest, 0)
               IN  /\ Len(c) >= 1
                   /\ Len(c) <= Len(s)
                   /\ c = SubSeq(s, 1, Len(c))
                   /\ \A i \in 1..(Len(c) - 1) : c[i] \in workload[k]
                   /\ pc[k] = "patch" => loc[k].err = "creating import manifest"
                   /\ pc[k] = "done"
                      => /\ ret[k].err # <<>>
                         /\ ret[k].err[1] = "error reconciling cluster"
                         /\ ret[k].res = EmptyResult)
    /\ [][\A k \in AllNames :
            (pc[k] = "apply" /\ DidOut(k, "Apply", "error")')
            => workload'[k] = workload[k]
                 \cup {loc'[k].calls[i] : i \in 1..(Len(loc'[k].calls) - 1)}]_vars

\* The creation of the second object of the first document failed: the first
\* object is on the workload cluster, the third was not attempted, and
\* Reconcile has returned the error.
C15_Witness ==
    /\ pc[NameA] = "done"
    /\ DidOut(NameA, "Apply", "error")
    /\ loc[NameA].calls = <<"ns", "sa">>
    /\ workload[NameA] = {"ns"}
    /\ ret[NameA].err = <<"error reconciling cluster">>

\* C16: after an application that was aborted part-way (a refused creation, a
\* document that did not parse) or that ran to its end, applying the intact
\* manifest again with nothing refused returns no error and leaves the
\* cluster with exactly the objects one uninterrupted application to the
\* original cluster leaves: what the cluster held and every object of the
\* manifest. When the first application met no failure, the second leaves the
\* object set as the first left it.
C16_ReapplicationIdempotent ==
    applyCall.step = "second"
    => LET a == applyCall
           once == createImportManifest(a.objs, a.body, {})
       IN  /\ a.second.err = "nil"
           /\ a.second.objs = once.objs
           /\ a.second.objs = a.objs \cup ManifestObjects(a.body)
           /\ (a.first.err = "nil" /\ a.bad = 0) => a.second.objs = a.first.objs

\* The first application was aborted at the second object of the first
\* document; the second application completed the object set.
C16_Witness ==
    /\ applyCall.step = "second"
    /\ applyCall.bad = 0
    /\ applyCall.fail = {"sa"}
    /\ applyCall.objs = {}
    /\ Len(applyCall.body) = 2
    /\ applyCall.body[1].items = <<"ns", "sa">>
    /\ applyCall.body[2].items = <<"deploy">>
    /\ applyCall.first.objs = {"ns"}
    /\ applyCall.first.err # "nil"
    /\ applyCall.second.objs = {"ns", "sa", "deploy"}

\* C17: an invocation whose Get of the CAPI cluster answers NotFound returns
\* Requeue true and no error; one whose Get fails otherwise returns Requeue
\* true and that error. Either way the Get is the invocation's only call (no
\* read of a Rancher cluster or token, no Create, no patch), and the step
\* changes no object of the management cluster or of a workload cluster.
C17_MissingCapiClusterRequeues ==
    /\ [](\A k \in AllNames :
            /\ DidOut(k, "GetCapi", "notfound")
               => /\ ops[k] = <<Op("GetCapi", "notfound")>>
                  /\ pc[k] = "done"
                  /\ ret[k].set
                  /\ ret[k].res = Result(TRUE, 0)
                  /\ ret[k].err = <<>>
                  /\ loc[k] = NoLoc
            /\ DidOut(k, "GetCapi", "error")
               => /\ ops[k] = <<Op("GetCapi", "error")>>
                  /\ pc[k] = "done"
                  /\ ret[k].set
                  /\ ret[k].res = Result(TRUE, 0)
                  /\ ret[k].err = <<"get capi cluster">>
                  /\ loc[k] = NoLoc)
    /\ [][\A k \in AllNames :
            (pc[k] = "getCapi" /\ pc'[k] = "done")
            => (mgmt' = mgmt /\ workload' = workload)]_vars

\* The CAPI cluster was deleted while its Rancher cluster exists, and an
\* invocation for its key has returned.
C17_Witness ==
    /\ pc[NameA] = "done"
    /\ ~capi[NameA].exists
    /\ DidOut(NameA, "GetCapi", "notfound")
    /\ rancher[ToRancherName(NameA)].exists
    /\ ret[NameA].res.Requeue

\* A call of the transition function (reconcile) failed in the invocation.
ReconcileFailed(k) ==
    \E i \in 1..Len(ops[k]) :
        /\ ops[k][i].op # "Patch"
        /\ ops[k][i].out \in {"error", "transport error", "read error"}

\* C18: an invocation that got past the readiness guard has issued no Patch
\* while the transition function runs and exactly one, as its last call, when
\* Reconcile returns, whether a call of the transition function failed or
\* not. The returned error contains the reconciliation error exactly when
\* such a call failed and the patch error exactly when the patch failed; it
\* is nil exactly when neither failed, and then the result is the transition
\* function's.
C18_PatchOnceErrorsAggregated ==
    \A k \in AllNames :
        /\ ~DidOut(k, "GetCapi", "ready") => ~Did(k, "Patch")
        /\ (DidOut(k, "GetCapi", "ready") /\ pc[k] # "done") => ~Did(k, "Patch")
        /\ (DidOut(k, "GetCapi", "ready") /\ pc[k] = "done")
           => /\ Count(k, "Patch") = 1
              /\ ops[k][Len(ops[k])].op = "Patch"
              /\ ("error reconciling cluster" \in Range(ret[k].err)) <=> ReconcileFailed(k)
              /\ ("failed to patch cluster" \in Range(ret[k].err))
                 <=> DidOut(k, "Patch", "error")
              /\ (ret[k].err = <<>>)
                 <=> (~ReconcileFailed(k) /\ DidOut(k, "Patch", "ok"))
              /\ ret[k].err = <<>> => ret[k].res = loc[k].result
              /\ ret[k].err # <<>> => ret[k].res = EmptyResult

\* The transition function failed and so did the patch: Reconcile returned
\* both errors.
C18_Witness ==
    /\ pc[NameA] = "done"
    /\ ReconcileFailed(NameA)
    /\ DidOut(NameA, "Patch", "error")
    /\ ret[NameA].err = <<"error reconciling cluster", "failed to patch cluster">>

\* C19 (as claimed): converting a valid CAPI name to the Rancher name and
\* back gives the CAPI name, also when the name ends in "-capi".
C19_RoundTrip ==
    (nameCall.step = "capi" /\ IsValidName(nameCall.n))
    => nameCall.capiName = nameCall.n

\* C20 (as claimed): the Rancher name is the CAPI name followed by "-capi",
\* whatever the name ends with.
C20_AppendsSuffix ==
    (nameCall.step = "rancher" /\ IsValidName(nameCall.n))
    => nameCall.rancherName = nameCall.n \o rancherCAPISuffix

\* C21 (as claimed): applying ToRancherName to its own result gives a
\* different name, the input with the suffix appended twice.
C21_NotIdempotent ==
    (nameCall.step = "again" /\ IsValidName(nameCall.n))
    => /\ nameCall.again # nameCall.rancherName
       /\ nameCall.again = (nameCall.n \o rancherCAPISuffix) \o rancherCAPISuffix

\* The string ends with the characters "-capi".
EndsInSuffix(n) ==
    /\ Len(n) >= 5
    /\ n[Len(n) - 4] = "-"
    /\ n[Len(n) - 3] = "c"
    /\ n[Len(n) - 2] = "a"
    /\ n[Len(n) - 1] = "p"
    /\ n[Len(n)] = "i"

\* C22: ToCapiName of a string that ends in "-capi" is the string without
\* that one trailing suffix (appending "-capi" to the result gives the string
\* back); of any other string it is the string itself.
C22_ToCapiNameStripsOneSuffix ==
    nameCall.step = "trimmed"
    => IF EndsInSuffix(nameCall.n)
       THEN nameCall.trimmed \o <<"-", "c", "a", "p", "i">> = nameCall.n
       ELSE nameCall.trimmed = nameCall.n

\* ToCapiName was applied to a name that ends in the suffix twice.
C22_Witness ==
    /\ nameCall.step = "trimmed"
    /\ nameCall.n = <<"a", "-", "c", "a", "p", "i", "-", "c", "a", "p", "i">>
    /\ nameCall.trimmed = <<"a", "-", "c", "a", "p", "i">>

\* The invocation fetched the Rancher cluster twice (reconcile,
\* reconcileNormal), both times without a deletion timestamp, and the second
\* fetch showed the status `status`.
SawLiveRancher(k, status) ==
    /\ DidOut(k, "GetRancher", "live")
    /\ DidOut(k, "GetRancher2", "live")
    /\ DidOut(k, "Status", status)

\* The invocation made one of the calls of the import: token, download,
\* remote client, apply.
DidImportCall(k) ==
    \/ Did(k, "GetToken")
    \/ Did(k, "CreateToken")
    \/ Did(k, "Download")
    \/ Did(k, "RemoteClient")
    \/ Did(k, "Apply")

\* C23: an invocation that fetched the Rancher cluster live, with a cluster
\* name and agent-deployed true, makes no further call but the patch: no
\* token read or Create, no download, no remote client, no Create on the
\* workload cluster or of a Rancher cluster; reconcile returns Result{} and
\* nil, and so does Reconcile when the patch succeeds.
C23_AgentDeployedIsTerminal ==
    \A k \in AllNames :
        SawLiveRancher(k, "deployed")
        => /\ ~DidImportCall(k)
           /\ ~Did(k, "CreateRancher")
           /\ loc[k].calls = <<>>
           /\ loc[k].sent = <<>>
           /\ loc[k].result = EmptyResult
           /\ loc[k].err = "nil"
           /\ loc[k].capiCluster = loc[k].patchBase
           /\ pc[k] \in {"patch", "done"}
           /\ (pc[k] = "done" /\ DidOut(k, "Patch", "ok"))
              => ret[k] = [set |-> TRUE, res |-> EmptyResult, err |-> <<>>]

\* An invocation found the agent deployed and returned.
C23_Witness ==
    /\ pc[NameA] = "done"
    /\ SawLiveRancher(NameA, "deployed")
    /\ DidOut(NameA, "Patch", "ok")
    /\ rancher[ToRancherName(NameA)].agentDeployed
    /\ ~Requeues(ret[NameA])

\* C24 (as claimed): an invocation that fetched the Rancher cluster live with
\* an empty status cluster name returns RequeueAfter the default requeue
\* duration and no error, having made no call of the import.
C24_RequeuesAfterDelay ==
    \A k \in AllNames :
        (SawLiveRancher(k, "empty") /\ pc[k] = "done" /\ DidOut(k, "Patch", "ok"))
        => /\ ret[k].res.RequeueAfter = defaultRequeueDuration
           /\ ret[k].err = <<>>
           /\ ~DidImportCall(k)
           /\ loc[k].calls = <<>>

\* C24 (amended): an invocation that fetched the Rancher cluster live with an
\* empty status cluster name makes no call of the import and creates
\* nothing; reconcile returns Requeue true with no RequeueAfter and no error,
\* and so does Reconcile when the patch succeeds.
C24_RequeuesAtOnce ==
    \A k \in AllNames :
        SawLiveRancher(k, "empty")
        => /\ ~DidImportCall(k)
           /\ ~Did(k, "CreateRancher")
           /\ loc[k].calls = <<>>
           /\ loc[k].result = Result(TRUE, 0)
           /\ loc[k].err = "nil"
           /\ pc[k] \in {"patch", "done"}
           /\ (pc[k] = "done" /\ DidOut(k, "Patch", "ok"))
              => ret[k] = [set |-> TRUE, res |-> Result(TRUE, 0), err |-> <<>>]

\* An invocation found the Rancher cluster without a cluster name and
\* returned.
C24_Witness ==
    /\ pc[NameA] = "done"
    /\ SawLiveRancher(NameA, "empty")
    /\ DidOut(NameA, "Patch", "ok")
    /\ rancher[ToRancherName(NameA)].clusterName = <<>>
    /\ ret[NameA].res.Requeue

\* The invocation found the agent not deployed and the token, which it
\* fetched or has just created, without a manifest URL.
SawNoManifestURL(k) ==
    /\ DidOut(k, "Status", "notdeployed")
    /\ DidOut(k, "ManifestURL", "empty") \/ DidOut(k, "CreateToken", "ok")

\* C25 (as claimed): an invocation that found the agent not deployed and the
\* token's manifest URL empty returns RequeueAfter the default requeue
\* duration and no error, without a download or a write to the workload
\* cluster.
C25_NoManifestRequeuesAfterDelay ==
    \A k \in AllNames :
        (SawNoManifestURL(k) /\ pc[k] = "done" /\ DidOut(k, "Patch", "ok"))
        => /\ ret[k].res.RequeueAfter = defaultRequeueDuration
           /\ ret[k].err = <<>>
           /\ ~Did(k, "Download")
           /\ ~Did(k, "Apply")

\* C25 (amended): an invocation that found the agent not deployed and the
\* token's manifest URL empty, the token fetched or created by it, downloads
\* nothing, builds no remote client and creates nothing on the workload
\* cluster; reconcile returns Requeue true with no RequeueAfter and no
\* error, and so does Reconcile when the patch succeeds.
C25_NoManifestRequeuesAtOnce ==
    \A k \in AllNames :
        SawNoManifestURL(k)
        => /\ ~Did(k, "Download")
           /\ ~Did(k, "RemoteClient")
           /\ ~Did(k, "Apply")
           /\ loc[k].calls = <<>>
           /\ loc[k].result = Result(TRUE, 0)
           /\ loc[k].err = "nil"
           /\ pc[k] \in {"patch", "done"}
           /\ (pc[k] = "done" /\ DidOut(k, "Patch", "ok"))
              => ret[k] = [set |-> TRUE, res |-> Result(TRUE, 0), err |-> <<>>]

\* An invocation fetched an existing token that has no manifest URL yet, and
\* returned.
C25_Witness ==
    /\ pc[NameA] = "done"
    /\ DidOut(NameA, "Status", "notdeployed")
    /\ DidOut(NameA, "ManifestURL", "empty")
    /\ DidOut(NameA, "Patch", "ok")
    /\ ret[NameA].res.Requeue

\* C26: the reconciler issues a Create of the token exactly when its lookup
\* answered NotFound, never after a lookup that found the token; a lookup
\* that fails otherwise and a Create that fails end reconcile with an error,
\* without a download or an apply; every token that exists is named by, and
\* carries in its spec, the status cluster name of a Rancher cluster; and no
\* step of the reconciler changes or removes a token that exists, while a
\* token that comes into being does so in the Create step of an invocation
\* whose lookup under the fetched status cluster name answered NotFound.
C26_TokenCreatedOnlyIfNotFound ==
    /\ [](\A k \in AllNames :
            /\ Did(k, "CreateToken") => DidOut(k, "GetToken", "notfound")
            /\ (DidOut(k, "GetToken", "notfound") /\ pc[k] # "createToken")
               => Did(k, "CreateToken")
            /\ Count(k, "GetToken") <= 1
            /\ Count(k, "CreateToken") <= 1
            /\ (DidOut(k, "GetToken", "error") \/ DidOut(k, "CreateToken", "error"))
               => /\ ~Did(k, "Download")
                  /\ ~Did(k, "RemoteClient")
                  /\ ~Did(k, "Apply")
                  /\ loc[k].err # "nil"
                  /\ pc[k] \in {"patch", "done"}
                  /\ pc[k] = "done" => ret[k].err # <<>>)
    /\ [](\A tn \in TokenNames :
            token[tn].exists
            => /\ token[tn].specClusterName = tn
               /\ \E rn \in RancherNames : tn = StatusName(rn))
    /\ [][\A tn \in TokenNames :
            pc' # pc
            => /\ token[tn].exists => token'[tn] = token[tn]
               /\ (~token[tn].exists /\ token'[tn].exists)
                  => \E k \in AllNames :
                       /\ pc[k] = "createToken"
                       /\ DidOut(k, "GetToken", "notfound")
                       /\ loc[k].rancherCluster.clusterName = tn
                       /\ tn = StatusName(ToRancherName(k))
                       /\ token'[tn] = [exists |-> TRUE, specClusterName |-> tn,
                                        manifestURL |-> FALSE]]_vars

\* An invocation looked the token up, did not find it, created it, and
\* returned.
C26_Witness ==
    /\ pc[NameA] = "done"
    /\ DidOut(NameA, "GetToken", "notfound")
    /\ DidOut(NameA, "CreateToken", "ok")
    /\ token[StatusName(ToRancherName(NameA))].exists

C28_PatchIsOptimisticallyLocked ==
    [][\A k \in AllNames :
         (/\ pc[k] = "patch"
          /\ pc'[k] = "done"
          /\ (~capi[k].exists \/ capi[k].rv # loc[k].patchBase.rv))
         => /\ capi' = capi
            /\ ops'[k] = Append(ops[k], Op("Patch", "error"))
            /\ "failed to patch cluster" \in Range(ret'[k].err)
            /\ ret'[k].res = EmptyResult]_vars

\* Another writer changed the CAPI cluster while an invocation that saw the
\* Rancher cluster deleting was in flight: its patch failed and the
\* annotation is not on the stored cluster.
C28_Witness ==
    /\ pc[NameA] = "done"
    /\ Did(NameA, "reconcileDelete")
    /\ loc[NameA].capiCluster.imported
    /\ capi[NameA].exists
    /\ capi[NameA].rv # loc[NameA].patchBase.rv
    /\ DidOut(NameA, "Patch", "error")
    /\ ~capi[NameA].imported
    /\ ret[NameA].err = <<"failed to patch cluster">>

\* The operations of the running invocation of key k are in source order:
\* the fetch of the CAPI cluster is the first and only the first, the fetch
\* of the Rancher cluster the second and only the second, and the patch, if
\* issued, comes after both and is the last.
OperationsInOrder(k) ==
    /\ \A i \in 1..Len(ops[k]) :
          /\ (ops[k][i].op = "GetCapi") <=> (i = 1)
          /\ (ops[k][i].op = "GetRancher") <=> (i = 2)
          /\ (ops[k][i].op = "Patch") => (i = Len(ops[k]) /\ i > 2)
    /\ (pc[k] = "done" /\ Len(ops[k]) > 1)
          => ops[k][Len(ops[k])].op = "Patch"

\* A step of the invocation of key k (the environment never moves pc).
ReconcilerStep(k) == pc'[k] # pc[k]

\* C29: in every invocation the CAPI cluster is fetched first and the Rancher
\* cluster second, before the deletion/normal branch is chosen; every step of
\* the invocation that writes a Rancher cluster, a token or a workload object
\* comes after both fetches and before the patch; the only step that writes
\* the CAPI cluster is the patch, and after the patch the invocation does
\* nothing but return.
C29_OperationsAreOrdered ==
    /\ [](\A k \in AllNames : OperationsInOrder(k))
    /\ [][\A k \in AllNames : ReconcilerStep(k) =>
            /\ (rancher' # rancher \/ token' # token \/ workload' # workload)
                  => /\ Len(ops[k]) >= 2
                     /\ ops[k][1].op = "GetCapi"
                     /\ ops[k][2].op = "GetRancher"
                     /\ ~Did(k, "Patch")
                     /\ capi' = capi
            /\ (capi' # capi)
                  => /\ pc[k] = "patch"
                     /\ ops'[k] = Append(ops[k], Op("Patch", "ok"))
            /\ Did(k, "Patch")
                  => /\ pc[k] = "done" /\ pc'[k] = "idle"
                     /\ UNCHANGED <<capi, rancher, token, workload>>]_vars

\* An invocation that fetched both clusters, found the token, created the
\* manifest's objects in the workload cluster and patched last.
C29_Witness ==
    /\ pc[NameA] = "done"
    /\ ops[NameA][1] = Op("GetCapi", "ready")
    /\ ops[NameA][2] = Op("GetRancher", "live")
    /\ DidOut(NameA, "GetToken", "found")
    /\ workload[NameA] # {}
    /\ DidOut(NameA, "Apply", "ok")
    /\ ops[NameA][Len(ops[NameA])] = Op("Patch", "ok")

\* The two keys of the pair derive different Rancher cluster names.
PairNamesDiffer == ToRancherName(pairRun.first) # ToRancherName(pairRun.second)

\* Every schedule of the two invocations has ended as the two sequential
\* runs did.
SameAsSequential ==
    (pairRun.phase = "both" /\ PairDone)
        => /\ Outcome = pairRun.afterAB
           /\ Outcome = pairRun.afterBA

\* C30: for any two distinct keys, every interleaving of the calls of their
\* two invocations leaves the same Rancher clusters, registration tokens and
\* imported annotations as the two invocations run one after the other, in
\* either order.
C30_KeysDoNotInterfere == SameAsSequential

\* The same for the pairs of keys whose Rancher names differ.
KeysWithDistinctRancherNamesDoNotInterfere == PairNamesDiffer => SameAsSequential

\* The number of times downloadManifest made the call `c`.
HttpCalls(c) ==
    Cardinality({i \in 1..Len(httpCall.result.calls) : httpCall.result.calls[i] = c})

\* C31: downloadManifest makes one GET. When the transport fails it returns
\* the download error and neither reads nor closes a body; when a response
\* arrived it reads the body and closes it exactly once, as its last call,
\* and returns the read error if the read failed and the whole body with no
\* error if it succeeded.
C31_DownloadClosesBodyOnce ==
    httpCall.step \in {"downloaded", "decided"}
        => LET resp == httpCall.resp
               d == httpCall.result
           IN  /\ HttpCalls("Get") = 1
               /\ d.calls[1] = "Get"
               /\ ~resp.transportOK
                    => /\ d.err = "downloading manifest"
                       /\ d.data = EmptyBody
                       /\ d.calls = <<"Get">>
               /\ resp.transportOK
                    => /\ HttpCalls("ReadAll") = 1
                       /\ HttpCalls("Close") = 1
                       /\ d.calls[Len(d.calls)] = "Close"
                       /\ IF resp.readOK
                          THEN d.err = "nil" /\ d.data = resp.body
                          ELSE d.err = "reading manifest" /\ d.data = EmptyBody

\* A response arrived, the read of its body failed, and the body was closed.
C31_Witness ==
    /\ httpCall.step = "downloaded"
    /\ httpCall.resp.transportOK
    /\ ~httpCall.resp.readOK
    /\ httpCall.resp.body = ImportManifest
    /\ httpCall.result = Downloaded(EmptyBody, "reading manifest", <<"Get", "ReadAll", "Close">>)

\* C40: the status code plays no part in downloadManifest: a response whose
\* body can be read is returned as the manifest with no error whatever its
\* status, and an error comes only from a transport failure or a failed read.
\* An empty body read without error is, to reconcileNormal, the manifest ""
\* it also gets when the token has no manifest URL: it does not apply and
\* returns the same requeue.
C40_StatusCodeIsIgnored ==
    httpCall.step \in {"downloaded", "decided"}
        => LET resp == httpCall.resp
               d == httpCall.result
           IN  /\ \A st \in StatusCodes : downloadManifest([resp EXCEPT !.status = st]) = d
               /\ (resp.transportOK /\ resp.readOK) => (d.err = "nil" /\ d.data = resp.body)
               /\ (d.err # "nil") <=> (~resp.transportOK \/ ~resp.readOK)
               /\ (httpCall.step = "decided" /\ d.err = "nil")
                    => /\ httpCall.ready <=> (resp.body # EmptyBody)
                       /\ resp.body = EmptyBody
                            => /\ httpCall.returned = manifestNotReady(EmptyBody, "nil")
                               /\ httpCall.returned.result.Requeue
                               /\ httpCall.returned.err = "nil"

\* A 404 response with an empty body was read without error: no error, no
\* apply, a requeue.
C40_Witness ==
    /\ httpCall.step = "decided"
    /\ httpCall.resp = [transportOK |-> TRUE, status |-> "404", body |-> EmptyBody,
                        readOK |-> TRUE]
    /\ httpCall.result.err = "nil"
    /\ ~httpCall.ready
    /\ httpCall.returned.result.Requeue

\* The number of requests for `key` the map function returned.
Requested(key) ==
    Cardinality({i \in 1..Len(eventCall.reqs) : eventCall.reqs[i] = key})

\* An event of Rancher cluster (ns, x) gives at most one request, for
\* (ns, ToCapiName(x)), and only if that CAPI cluster exists and passes the
\* predicates.
RancherEventMapsToItsCapiCluster ==
    (eventCall.step # "input" /\ eventCall.o.kind = "Cluster")
        => LET e == eventCall
               key == [Namespace |-> e.o.namespace, Name |-> ToCapiName(e.o.name)]
           IN  /\ Len(e.reqs) <= 1
               /\ \A i \in 1..Len(e.reqs) :
                    /\ e.reqs[i] = key
                    /\ key \in DOMAIN e.store
                    /\ e.store[key].exists
                    /\ PassesPredicates(e.store, e.labels, key)

\* An event of a namespace gives requests only if the namespace has the
\* label, and then, the List succeeding, one for each of the namespace's CAPI
\* clusters that pass the predicates.
NamespaceEventMapsToItsClusters ==
    (eventCall.step # "input" /\ eventCall.o.kind = "Namespace")
        => LET e == eventCall
           IN  /\ ~e.labels[e.o.name] => e.reqs = <<>>
               /\ (e.labels[e.o.name] /\ ~e.err)
                    => \A key \in DOMAIN e.store :
                         key.Namespace = e.o.name
                           => Requested(key) =
                                IF e.store[key].exists /\ PassesPredicates(e.store, e.labels, key)
                                THEN 1 ELSE 0

\* An event of a namespace gives no request for a cluster of another
\* namespace.
NamespaceEventStaysInNamespace ==
    (eventCall.step # "input" /\ eventCall.o.kind = "Namespace")
        => \A i \in 1..Len(eventCall.reqs) : eventCall.reqs[i].Namespace = eventCall.o.name

\* C32: a Rancher cluster event enqueues at most the one key
\* (ns, ToCapiName(x)), and only if that CAPI cluster exists and passes the
\* predicates; a namespace event enqueues only when the namespace has the
\* auto-import label, then exactly one request per CAPI cluster of that
\* namespace that passes the predicates, and none for clusters of other
\* namespaces.
C32_EventsMapToReconcileKeys ==
    /\ RancherEventMapsToItsCapiCluster
    /\ NamespaceEventMapsToItsClusters
    /\ NamespaceEventStaysInNamespace

\* The first two parts on their own.
EventsMapToReconcileKeysOfPassingClusters ==
    /\ RancherEventMapsToItsCapiCluster
    /\ NamespaceEventMapsToItsClusters

\* The invocation of key k uses Rancher cluster rn: it has fetched it under
\* the name it derives from k.
UsesRancherCluster(k, rn) == Did(k, "GetRancher") /\ ToRancherName(k) = rn

\* C33: two CAPI clusters of a namespace with different names never derive
\* the same Rancher cluster name: no Rancher cluster is used by the
\* invocations of two keys, and an invocation that goes on to the
\* registration token or the import does so for a Rancher cluster that is
\* not owned by another CAPI cluster.
C33_RancherNamesAreInjective ==
    /\ \A k1, k2 \in keys : \A rn \in RancherNames :
         (UsesRancherCluster(k1, rn) /\ UsesRancherCluster(k2, rn)) => k1 = k2
    /\ \A k \in keys :
         (Did(k, "GetToken") \/ Did(k, "Apply"))
            => LET rc == rancher[ToRancherName(k)]
               IN  (rc.exists /\ rc.owners # NoOwner) => rc.owners[1].name = k

\* C34: an invocation reads or creates the registration token, downloads and
\* applies the manifest only if its most recent read of the Rancher cluster,
\* the one reconcileNormal makes, showed no deletion timestamp.
C34_DeletingClusterIsNotImported ==
    \A k \in AllNames :
        DidOut(k, "GetRancher2", "deleting")
            => /\ ~Did(k, "GetToken")
               /\ ~Did(k, "CreateToken")
               /\ ~Did(k, "Download")
               /\ ~Did(k, "Apply")

\* The invocation of key k has created every object of the manifest in the
\* workload cluster and returned success without asking for a requeue.
Imported(k) ==
    /\ pc[k] = "done"
    /\ DidOut(k, "Apply", "ok")
    /\ workload[k] = Objects
    /\ ret[k] = [set |-> TRUE, res |-> EmptyResult, err |-> <<>>]

\* C35: a CAPI cluster with a ready control plane that is eligible for
\* auto-import and has no Rancher cluster is imported in the end: some
\* invocation creates every manifest object in the workload cluster and
\* returns success without a requeue, provided the queue redelivers, the
\* calls meet no fault at some time and Rancher publishes the cluster name
\* and the manifest URL.
C35_ImportCompletes ==
    (/\ capi[NameA].exists
     /\ ClusterWithReadyControlPlane(capi[NameA])
     /\ ShouldAutoImport(capi[NameA], nsLabel)
     /\ ~rancher[ToRancherName(NameA)].exists)
        ~> Imported(NameA)

\* The import of the cluster has completed after the Rancher cluster and the
\* token were created by the reconciler.
C35_Witness ==
    /\ Imported(NameA)
    /\ rancher[ToRancherName(NameA)] =
          [newRancherCluster(NameA) EXCEPT !.clusterName = StatusName(ToRancherName(NameA))]
    /\ token[StatusName(ToRancherName(NameA))].manifestURL

\* C36: a Reconcile that got past the readiness guard and returns an error
\* returns the empty result with it, whatever the transition function asked
\* for; one that returns no error returns the transition function's result.
C36_ErrorDiscardsResult ==
    \A k \in AllNames :
        (pc[k] = "done" /\ Did(k, "Patch"))
            => /\ ret[k].err # <<>> => ret[k].res = EmptyResult
               /\ ret[k].err = <<>> => ret[k].res = loc[k].result
               /\ (ret[k].err # <<>>) <=> (loc[k].err # "nil" \/ DidOut(k, "Patch", "error"))

\* The Get of the Rancher cluster failed: reconcile asked for a requeue with
\* its error, Reconcile returned the error and the empty result.
C36_Witness ==
    /\ pc[NameA] = "done"
    /\ DidOut(NameA, "GetRancher", "error")
    /\ loc[NameA].result = Result(TRUE, 0)
    /\ DidOut(NameA, "Patch", "ok")
    /\ ret[NameA] = [set |-> TRUE, res |-> EmptyResult, err |-> <<"error reconciling cluster">>]

\* C37: Reconcile goes past the readiness guard exactly when the status flag
\* or the ControlPlaneReady condition is true, and returns the one-minute
\* requeue exactly when both are false.
C37_ReadinessGuardIsDisjunctive ==
    \A k \in AllNames :
        (Len(ops[k]) > 0 /\ ops[k][1].out \in {"ready", "notready"})
            => IF capi[k].ready \/ capi[k].conditionTrue
               THEN /\ Len(ops[k]) = 1 => pc[k] = reconcileEntry
                    /\ pc[k] = "done" => Did(k, "GetRancher")
               ELSE /\ pc[k] = "done"
                    /\ Len(ops[k]) = 1
                    /\ ret[k] = [set |-> TRUE, res |-> Result(FALSE, defaultRequeueDuration),
                                 err |-> <<>>]

\* The flag is false and the condition true: the cluster was reconciled and
\* its Rancher cluster created.
C37_Witness ==
    /\ ~capi[NameA].ready
    /\ capi[NameA].conditionTrue
    /\ DidOut(NameA, "CreateRancher", "ok")
    /\ rancher[ToRancherName(NameA)].exists

\* C38: from two states that differ only in the owned label and the owner
\* reference of the Rancher cluster, Reconcile makes the same calls with the
\* same outcomes, returns the same, and leaves the same annotation, workload
\* objects and tokens.
C38_OwnershipIsNotConsulted ==
    (pairRun.phase = "foreign" /\ PairDone)
        => Conduct(pairRun.first) = pairRun.owned

\* A deleting Rancher cluster without label and owner: the invocation
\* annotated the CAPI cluster as it did for the owned one.
C38_Witness ==
    /\ pairRun.phase = "foreign"
    /\ PairDone
    /\ rancher[ToRancherName(NameA)].deleting
    /\ rancher[ToRancherName(NameA)].labels = {}
    /\ rancher[ToRancherName(NameA)].owners = NoOwner
    /\ Did(NameA, "reconcileDelete")
    /\ capi[NameA].imported
    /\ pairRun.owned.imported

\* The manifest of a Rancher cluster without label and owner was applied.
ForeignClusterManifestApplied ==
    /\ pairRun.phase = "foreign"
    /\ PairDone
    /\ rancher[ToRancherName(NameA)].owners = NoOwner
    /\ DidOut(NameA, "Apply", "ok")
    /\ workload[NameA] = Objects

\* C39: reconcileDelete leaves every other annotation with its key and
\* value, sets the imported key to "true" whether or not it was there, turns
\* a nil map into a map holding only that key, and a second run changes
\* nothing; the cluster record of the reconciler's model follows.
C39_ReconcileDeleteTouchesOneAnnotation ==
    (annotateCall.step \in {"once", "twice"})
        => LET b == annotateCall.before
               o == annotateCall.once
           IN  /\ ~o.isNil
               /\ DOMAIN o.entries = DOMAIN b.entries \cup {ClusterImportedAnnotation}
               /\ o.entries[ClusterImportedAnnotation] = "true"
               /\ \A a \in DOMAIN b.entries \ {ClusterImportedAnnotation} :
                    o.entries[a] = b.entries[a]
               /\ b.isNil => DOMAIN o.entries = {ClusterImportedAnnotation}
               /\ annotateCall.cluster = Annotated(o)
               /\ (annotateCall.step = "twice") => annotateCall.twice = o

\* A cluster with two other annotations and the imported key at another
\* value was annotated twice.
C39_Witness ==
    /\ annotateCall.step = "twice"
    /\ DOMAIN annotateCall.before.entries = AnnotationKeys
    /\ annotateCall.before.entries[ClusterImportedAnnotation] = "false"
    /\ annotateCall.before.entries["note"] = "v"
    /\ annotateCall.twice.entries["note"] = "v"
    /\ annotateCall.twice.entries[ClusterImportedAnnotation] = "true"

\* A nil annotation map was annotated.
NilAnnotationsAnnotated ==
    /\ annotateCall.step = "once"
    /\ annotateCall.before.isNil
    /\ DOMAIN annotateCall.once.entries = {ClusterImportedAnnotation}

====
